---- MODULE Spec2Model ----
(***************************************************************************)
(* A model of the drawing application: the undo/redo history engine        *)
(* (js/core/StateManager.js), the toolbar that mirrors its canUndo/canRedo *)
(* flags, the canvas raster, the object store, the tools and the render    *)
(* loop of js/app.js.                                                      *)
(*                                                                         *)
(* Snapshots are ImageData objects.  An object has an identity (a Ref) and *)
(* a content (a Picture) kept in `heap`; `states` holds identities, so     *)
(* that aliasing between the engine and its callers is observable.         *)
(*                                                                         *)
(* Every handler is an operator from a world record (all the program's     *)
(* fields) to a world record; EventBus.emit is the sequential composition  *)
(* of the subscribed handlers.  An action applies one handler to the       *)
(* current world and commits the result.                                   *)
(***************************************************************************)
EXTENDS Integers, Sequences, FiniteSets, TLC

VARIABLES
    states,          \* StateManager.states: sequence of Refs
    currentIndex,    \* StateManager.currentIndex (0-based, -1 when empty)
    heap,            \* the allocated ImageData objects: Ref -> Picture
    toolbar,         \* Toolbar.canUndo / Toolbar.canRedo
    canvas,          \* the pixels of the canvas element
    held,            \* ImageData references kept by the caller of the engine
    objects,         \* ObjectManager.objects, bottom to top
    selectedObject,  \* ObjectManager.selectedObject (the id of the object)
    nextId,          \* ObjectManager.nextId
    issued,          \* the ids addObject has returned, in the order of the calls
    tools,           \* the tool instances that are current or still subscribed
    pending,         \* selectTool calls waiting for their module to load
    ghosts,          \* selectedObject of the discarded SelectionTool instances
    cmIsDrawing,     \* CanvasManager.isDrawing
    isRedrawing,     \* DrawingApp.isRedrawing
    cmListening,     \* the canvas manager's properties:change listener is on the bus
    used,            \* how many inputs of each bounded kind the user has made
    last             \* what the last handler was, what it returned, what it pushed

vars ==
    <<states, currentIndex, heap, toolbar, canvas, held, objects,
      selectedObject, nextId, issued, tools, pending, ghosts, cmIsDrawing,
      isRedrawing, cmListening, used, last>>

----------------------------------------------------------------------------
(* Bounds *)

\* StateManager.maxStates is 50 in the source (StateManager.js:9); the model
\* runs the same eviction code with a smaller limit.
maxStates ==
    3

\* An optional value is a sequence of length at most one: Null is
\* JavaScript's null (and undefined, where the code only tests truthiness).
Null ==
    <<>>

Some(x) ==
    <<x>>

The(o) ==
    o[1]

\* Identities available for ImageData objects: the stored entries, the two
\* references a caller keeps, and the two objects a handler allocates before
\* the ones it replaces are dropped.
Refs ==
    1 .. (maxStates + 4)

----------------------------------------------------------------------------
(* Pictures: the content of the canvas raster or of an ImageData.          *)
(*   scene  - what redrawCanvas painted from the object store              *)
(*   selbox - the selection decoration painted by drawSelectionBox         *)
(*   ink    - raster marks painted directly by a tool                      *)

Blank ==
    [scene |-> <<>>, selbox |-> Null, ink |-> {}]

\* The pictures the environment paints in the history-engine specification.
SamplePictures ==
    {Blank, [Blank EXCEPT !.ink = {"line"}]}

Range(s) ==
    {s[i] : i \in 1 .. Len(s)}

\* JavaScript array indexing, 0-based: undefined outside the array.
nth(s, i) ==
    IF i \in 0 .. (Len(s) - 1) THEN Some(s[i + 1]) ELSE Null

----------------------------------------------------------------------------
(* The world record *)

\* The program state a handler starts from, with what the handler is observed
\* to do: the number of saveState calls, whether it threw, the gestures it
\* completed, whether a division left the integers, and the value it wrote
\* to canvas.style.cursor, which nothing in the program reads.
World ==
    [states |-> states, currentIndex |-> currentIndex, heap |-> heap,
     toolbar |-> toolbar, canvas |-> canvas, objects |-> objects,
     selectedObject |-> selectedObject, nextId |-> nextId,
     issued |-> issued, tools |-> tools,
     pending |-> pending, ghosts |-> ghosts, cmIsDrawing |-> cmIsDrawing,
     isRedrawing |-> isRedrawing, cmListening |-> cmListening, used |-> used,
     pushes |-> 0, threw |-> FALSE, completed |-> <<>>, inexact |-> FALSE,
     cursor |-> Null]

\* A new ImageData object: the least unallocated identity.
NewRef(hp) ==
    CHOOSE r \in Refs \ DOMAIN hp : \A q \in Refs \ DOMAIN hp : r <= q

Store(hp, r, p) ==
    [q \in DOMAIN hp \cup {r} |-> IF q = r THEN p ELSE hp[q]]

\* Unreferenced ImageData objects are collected.
Collect(hp, st, keep) ==
    [r \in DOMAIN hp \cap (Range(st) \cup keep) |-> hp[r]]

HeldRefs(hd) ==
    Range(hd.passed) \cup Range(hd.returned)

\* The name of an identity carries no information: after each handler the
\* live objects are renamed 1, 2, ... in the order entries, passed, returned.
Rename(st, hd) ==
    LET order == st \o hd.passed \o hd.returned
        first(r) == CHOOSE i \in 1 .. Len(order) :
                        order[i] = r /\ \A j \in 1 .. (i - 1) : order[j] # r
    IN  [r \in Range(order) |-> Cardinality({order[j] : j \in 1 .. first(r)})]

----------------------------------------------------------------------------
(* Toolbar (state:changed listener) *)

Toolbar_onStateChanged(w, stateInfo) ==
    [w EXCEPT !.toolbar = [canUndo |-> stateInfo.canUndo, canRedo |-> stateInfo.canRedo]]

----------------------------------------------------------------------------
(* CanvasManager *)

\* ctx.getImageData: a new ImageData holding a copy of the canvas pixels.
getCanvasState(w) ==
    LET r == NewRef(w.heap)
    IN  [ref |-> r, w |-> [w EXCEPT !.heap = Store(@, r, w.canvas)]]

\* ctx.putImageData: the pixels of the ImageData are copied into the canvas.
restoreState(w, r) ==
    [w EXCEPT !.canvas = w.heap[r]]

\* ctx.clearRect over the whole canvas.
CanvasManager_clear(w) ==
    [w EXCEPT !.canvas = Blank]

----------------------------------------------------------------------------
(* StateManager *)

canUndo_inclusive(idx) ==
    idx >= 0

canUndo(idx) ==
    idx > 0

canRedo(st, idx) ==
    idx < Len(st) - 1

cloneState_alias(hp, r) ==
    [ref |-> r, heap |-> hp]

\* cloneState, ImageData branch: new ImageData + data.set.
cloneState(hp, r) ==
    LET n == NewRef(hp)
    IN  [ref |-> n, heap |-> Store(hp, n, hp[r])]

emitStateChanged(w) ==
    Toolbar_onStateChanged(w, [canUndo |-> canUndo(w.currentIndex),
                               canRedo |-> canRedo(w.states, w.currentIndex)])

\* saveState with one of its three steps changed: "slice" keeps the redo
\* branch, "limit" never evicts, "shift" evicts the newest entry.
saveStateWith(w, r, slip) ==
    LET sliced == IF slip = "slice" THEN w.states
                  ELSE SubSeq(w.states, 1, w.currentIndex + 1)
        c      == cloneState(w.heap, r)
        pushed == Append(sliced, c.ref)
        idx    == w.currentIndex + 1
        over   == slip # "limit" /\ Len(pushed) > maxStates
        kept   == IF slip = "shift" THEN SubSeq(pushed, 1, Len(pushed) - 1)
                  ELSE Tail(pushed)
        w1     == [w EXCEPT !.states = IF over THEN kept ELSE pushed,
                            !.currentIndex = IF over THEN idx - 1 ELSE idx,
                            !.heap = c.heap,
                            !.pushes = @ + 1]
    IN  emitStateChanged(w1)

saveState_keepsRedoBranch(w, r) ==
    saveStateWith(w, r, "slice")

saveState_unbounded(w, r) ==
    saveStateWith(w, r, "limit")

saveState_evictsNewest(w, r) ==
    saveStateWith(w, r, "shift")

saveState(w, r) ==
    LET sliced == SubSeq(w.states, 1, w.currentIndex + 1)
        c      == cloneState(w.heap, r)
        pushed == Append(sliced, c.ref)
        idx    == w.currentIndex + 1
        over   == Len(pushed) > maxStates
        w1     == [w EXCEPT !.states = IF over THEN Tail(pushed) ELSE pushed,
                            !.currentIndex = IF over THEN idx - 1 ELSE idx,
                            !.heap = c.heap,
                            !.pushes = @ + 1]
    IN  emitStateChanged(w1)

\* cloneState(state) at the end of undo/redo: a copy of the ImageData; of
\* undefined, JSON.parse(JSON.stringify(undefined)) throws.
returnClone(w, state) ==
    IF state = Null
    THEN [ret |-> Null, w |-> [w EXCEPT !.threw = TRUE]]
    ELSE LET c == cloneState(w.heap, The(state))
         IN  [ret |-> Some(c.ref), w |-> [w EXCEPT !.heap = c.heap]]

undo_stale(w) ==
    IF ~canUndo(w.currentIndex)
    THEN [ret |-> Null, w |-> w]
    ELSE LET idx   == w.currentIndex - 1
             state == nth(w.states, w.currentIndex)
         IN  returnClone(emitStateChanged([w EXCEPT !.currentIndex = idx]), state)

\* An undo that goes back to the first entry at once.
undo_toStart(w) ==
    IF ~canUndo(w.currentIndex)
    THEN [ret |-> Null, w |-> w]
    ELSE returnClone(emitStateChanged([w EXCEPT !.currentIndex = 0]),
                     nth(w.states, 0))

undo(w) ==
    IF ~canUndo(w.currentIndex)
    THEN [ret |-> Null, w |-> w]
    ELSE LET idx   == w.currentIndex - 1
             state == nth(w.states, idx)
         IN  returnClone(emitStateChanged([w EXCEPT !.currentIndex = idx]), state)

redo_silent(w) ==
    IF ~canRedo(w.states, w.currentIndex)
    THEN [ret |-> Null, w |-> w]
    ELSE LET idx   == w.currentIndex + 1
             state == nth(w.states, idx)
         IN  returnClone([w EXCEPT !.currentIndex = idx], state)

redo(w) ==
    IF ~canRedo(w.states, w.currentIndex)
    THEN [ret |-> Null, w |-> w]
    ELSE LET idx   == w.currentIndex + 1
             state == nth(w.states, idx)
         IN  returnClone(emitStateChanged([w EXCEPT !.currentIndex = idx]), state)

StateManager_clear(w) ==
    Toolbar_onStateChanged([w EXCEPT !.states = <<>>, !.currentIndex = -1],
                           [canUndo |-> FALSE, canRedo |-> FALSE])

----------------------------------------------------------------------------
(* DrawingApp event handlers (js/app.js setupEventListeners) *)

\* canvas:change
onCanvasChange(w) ==
    LET g == getCanvasState(w)
    IN  [passed |-> g.ref, w |-> saveState(g.w, g.ref)]

\* action:undo
onActionUndo(w) ==
    LET u == undo(w)
    IN  [ret |-> u.ret, w |-> IF u.ret # Null THEN restoreState(u.w, The(u.ret)) ELSE u.w]

\* action:redo
onActionRedo(w) ==
    LET u == redo(w)
    IN  [ret |-> u.ret, w |-> IF u.ret # Null THEN restoreState(u.w, The(u.ret)) ELSE u.w]

----------------------------------------------------------------------------
(* Geometry.  Coordinates are integers; a handler whose division or square *)
(* root leaves the integers marks the world inexact, and such a step is    *)
(* not taken: the pointer is only put where the arithmetic is exact.       *)

\* BaseTool.properties.strokeWidth, the hit-test tolerance of a stroke.
strokeWidth ==
    2

\* SelectionTool.handleSize, the radius within which a handle is grabbed.
handleSize ==
    8

\* The least width and height resizeSelectedObject allows.
minResize ==
    10

Pt(x, y) ==
    [x |-> x, y |-> y]

Min2(a, b) ==
    IF a <= b THEN a ELSE b

Max2(a, b) ==
    IF a >= b THEN a ELSE b

Abs(a) ==
    IF a < 0 THEN -a ELSE a

MinOf(S) ==
    CHOOSE m \in S : \A n \in S : m <= n

MaxOf(S) ==
    CHOOSE m \in S : \A n \in S : m >= n

\* Math.sqrt on a perfect square; exact tells whether n is one.
Sqrt(n) ==
    LET r == CHOOSE q \in 0 .. n : q * q <= n /\ (q + 1) * (q + 1) > n
    IN  [root |-> r, exact |-> r * r = n]

Even(n) ==
    n % 2 = 0

----------------------------------------------------------------------------
(* ObjectManager: queries *)

getObject(objs, objectId) ==
    LET found == {i \in 1 .. Len(objs) : objs[i].id = objectId}
    IN  IF found = {} THEN Null ELSE Some(objs[MinOf(found)])

findIndex(objs, objectId) ==
    LET found == {i \in 1 .. Len(objs) : objs[i].id = objectId}
    IN  IF found = {} THEN 0 ELSE MinOf(found)

getObjectBounds(obj) ==
    CASE obj.type = "rectangle" ->
             [x |-> obj.x, y |-> obj.y, width |-> obj.width, height |-> obj.height]
      [] obj.type = "circle" ->
             [x |-> obj.x - obj.radius, y |-> obj.y - obj.radius,
              width |-> obj.radius * 2, height |-> obj.radius * 2]
      [] obj.type \in {"line", "arrow"} ->
             IF Len(obj.points) < 2
             THEN [x |-> obj.x, y |-> obj.y, width |-> 0, height |-> 0]
             ELSE LET minX == Min2(obj.points[1].x, obj.points[2].x)
                      maxX == Max2(obj.points[1].x, obj.points[2].x)
                      minY == Min2(obj.points[1].y, obj.points[2].y)
                      maxY == Max2(obj.points[1].y, obj.points[2].y)
                  IN  [x |-> minX, y |-> minY,
                       width |-> maxX - minX, height |-> maxY - minY]
      [] obj.type = "freehand" ->
             IF Len(obj.path) = 0
             THEN [x |-> obj.x, y |-> obj.y, width |-> 0, height |-> 0]
             ELSE LET xs == {obj.path[i].x : i \in 1 .. Len(obj.path)}
                      ys == {obj.path[i].y : i \in 1 .. Len(obj.path)}
                  IN  [x |-> MinOf(xs), y |-> MinOf(ys),
                       width |-> MaxOf(xs) - MinOf(xs),
                       height |-> MaxOf(ys) - MinOf(ys)]
      [] OTHER ->
             [x |-> obj.x, y |-> obj.y, width |-> obj.width, height |-> obj.height]

\* The distance from (x, y) to the segment is at most the tolerance.  With
\* param = dot / lenSq in [0, 1] the squared distance to the projection is
\* (A*A + B*B) - dot*dot / lenSq; both sides are multiplied by lenSq.
isPointNearLine(x, y, start, end, tolerance) ==
    LET A == x - start.x
        B == y - start.y
        C == end.x - start.x
        D == end.y - start.y
        dot == A * C + B * D
        lenSq == C * C + D * D
        tolSq == tolerance * tolerance
    IN  IF lenSq = 0 THEN A * A + B * B <= tolSq
        ELSE IF dot < 0 THEN A * A + B * B <= tolSq
        ELSE IF dot > lenSq
             THEN (x - end.x) * (x - end.x) + (y - end.y) * (y - end.y) <= tolSq
        ELSE (A * A + B * B) * lenSq - dot * dot <= tolSq * lenSq

isPointNearPath(x, y, path, tolerance) ==
    \E i \in 1 .. (Len(path) - 1) :
        isPointNearLine(x, y, path[i], path[i + 1], tolerance)

isPointInObject(x, y, obj) ==
    CASE obj.type = "rectangle" ->
             /\ x >= obj.x /\ x <= obj.x + obj.width
             /\ y >= obj.y /\ y <= obj.y + obj.height
      [] obj.type = "circle" ->
             /\ obj.radius >= 0
             /\ (x - obj.x) * (x - obj.x) + (y - obj.y) * (y - obj.y)
                    <= obj.radius * obj.radius
      [] obj.type \in {"line", "arrow"} ->
             /\ Len(obj.points) >= 2
             /\ isPointNearLine(x, y, obj.points[1], obj.points[2], strokeWidth)
      [] obj.type = "freehand" ->
             /\ Len(obj.path) # 0
             /\ isPointNearPath(x, y, obj.path, strokeWidth)
      [] OTHER -> FALSE

\* The loop of getObjectAtPosition from index i down to the first object.
RECURSIVE scanDown(_, _, _, _)
scanDown(objs, x, y, i) ==
    IF i < 1 THEN Null
    ELSE IF ~objs[i].visible THEN scanDown(objs, x, y, i - 1)
    ELSE IF isPointInObject(x, y, objs[i]) THEN Some(objs[i])
    ELSE scanDown(objs, x, y, i - 1)

\* A hit test that does not look at the visible flag.
getObjectAtPosition_ignoresVisible(objs, x, y) ==
    LET hits == {i \in 1 .. Len(objs) : isPointInObject(x, y, objs[i])}
    IN  IF hits = {} THEN Null ELSE Some(objs[MaxOf(hits)])

\* A hit test that returns the bottommost object under the point.
getObjectAtPosition_bottomFirst(objs, x, y) ==
    LET hits == {i \in 1 .. Len(objs) :
                    objs[i].visible /\ isPointInObject(x, y, objs[i])}
    IN  IF hits = {} THEN Null ELSE Some(objs[MinOf(hits)])

getObjectAtPosition(objs, x, y) ==
    scanDown(objs, x, y, Len(objs))

----------------------------------------------------------------------------
(* DrawingApp.redrawCanvas *)

\* What drawObject paints for an object: the fields it reads, and nothing
\* for a shape of no extent (a path without a segment of positive length
\* strokes to no pixel).
drawObject(obj) ==
    CASE obj.type = "rectangle" ->
             IF obj.width = 0 /\ obj.height = 0 THEN <<>>
             ELSE <<"rectangle", obj.x, obj.y, obj.width, obj.height>>
      [] obj.type = "circle" ->
             IF obj.radius = 0 THEN <<>>
             ELSE <<"circle", obj.x, obj.y, obj.radius>>
      [] obj.type \in {"line", "arrow"} ->
             IF Len(obj.points) < 2 THEN <<>> ELSE <<obj.type, obj.points>>
      [] obj.type = "freehand" ->
             IF \A k \in 1 .. Len(obj.path) : obj.path[k] = obj.path[1]
             THEN <<>> ELSE <<"freehand", obj.path>>
      [] OTHER -> <<>>

\* The selection decoration: outline and handles around the bounds of the
\* object manager's selected object.
drawSelectionBox(w) ==
    IF w.selectedObject = Null THEN Null
    ELSE LET o == getObject(w.objects, The(w.selectedObject))
         IN  IF o = Null THEN Null ELSE Some(getObjectBounds(The(o)))

currentTool(w) ==
    LET cur == {i \in 1 .. Len(w.tools) : w.tools[i].current}
    IN  IF cur = {} THEN 0 ELSE MinOf(cur)

\* CanvasRenderingContext2D.arc throws IndexSizeError for a negative radius.
drawObjectThrows(obj) ==
    obj.type = "circle" /\ obj.radius < 0

\* The body of redrawCanvas between the two assignments of isRedrawing:
\* the canvas is cleared and the visible objects are drawn bottom to top,
\* then the selection box.  An exception leaves the body where it is
\* thrown, with the flag still set.
drawAll(w) ==
    LET vis   == SelectSeq(w.objects, LAMBDA o : o.visible)
        bad   == {k \in 1 .. Len(vis) : drawObjectThrows(vis[k])}
        upto  == IF bad = {} THEN vis ELSE SubSeq(vis, 1, MinOf(bad) - 1)
        shown == SelectSeq(upto, LAMBDA o : drawObject(o) # <<>>)
        cur   == currentTool(w)
    IN  [w EXCEPT !.canvas =
            [scene  |-> [i \in 1 .. Len(shown) |-> drawObject(shown[i])],
             selbox |-> IF bad = {} /\ cur # 0 /\ w.tools[cur].kind = "select"
                        THEN drawSelectionBox(w) ELSE Null,
             ink    |-> {}],
                  !.isRedrawing = bad # {}]

\* A redrawCanvas that does not clear isRedrawing when it is done.
redrawCanvas_flagLeftSet(w) ==
    IF w.isRedrawing THEN w
    ELSE [drawAll([w EXCEPT !.isRedrawing = TRUE]) EXCEPT !.isRedrawing = TRUE]

\* The exception of a draw call is caught by EventBus.emit when the redraw
\* runs in a listener, and ends the render loop when it runs in a frame.
redrawCanvas(w) ==
    IF w.isRedrawing THEN w
    ELSE drawAll([w EXCEPT !.isRedrawing = TRUE])

----------------------------------------------------------------------------
(* ObjectManager: updates, with the listeners of the events they emit *)

\* object:selected and object:deselected reach every SelectionTool instance
\* ever constructed: those listeners are never removed.
SetToolSelection(w, sel) ==
    [w EXCEPT !.tools = [i \in 1 .. Len(w.tools) |->
                            IF w.tools[i].kind = "select"
                            THEN [w.tools[i] EXCEPT !.selectedObject = sel]
                            ELSE w.tools[i]],
              !.ghosts = IF w.ghosts = {} THEN {} ELSE {sel}]

\* A store that numbers a new object by the count of stored objects.
addObject_countsObjects(w, object) ==
    LET id == Len(w.objects) + 1
        fullObject == [id |-> id, type |-> object.type,
                       x |-> object.x, y |-> object.y,
                       width |-> object.width, height |-> object.height,
                       path |-> object.path, points |-> object.points,
                       radius |-> object.radius, visible |-> TRUE]
    IN  redrawCanvas([w EXCEPT !.objects = Append(@, fullObject),
                               !.nextId = @ + 1,
                               !.issued = Append(@, id)])

addObject(w, object) ==
    LET fullObject == [id |-> w.nextId, type |-> object.type,
                       x |-> object.x, y |-> object.y,
                       width |-> object.width, height |-> object.height,
                       path |-> object.path, points |-> object.points,
                       radius |-> object.radius, visible |-> TRUE]
    IN  redrawCanvas([w EXCEPT !.objects = Append(@, fullObject),
                               !.nextId = @ + 1,
                               !.issued = Append(@, w.nextId)])

\* A store that assigns whatever getObject returns, null for a missing id.
selectObject_assignsLookup(w, objectId) ==
    IF getObject(w.objects, objectId) = Null
    THEN [w EXCEPT !.selectedObject = Null]
    ELSE SetToolSelection([w EXCEPT !.selectedObject = Some(objectId)],
                          Some(objectId))

selectObject(w, objectId) ==
    IF getObject(w.objects, objectId) = Null THEN w
    ELSE SetToolSelection([w EXCEPT !.selectedObject = Some(objectId)],
                          Some(objectId))

deselectAll(w) ==
    SetToolSelection([w EXCEPT !.selectedObject = Null], Null)

\* A store whose delete leaves the selection alone.
deleteObject_keepsSelection(w, objectId) ==
    LET index == findIndex(w.objects, objectId)
    IN  IF index = 0 THEN w
        ELSE redrawCanvas([w EXCEPT !.objects = SubSeq(@, 1, index - 1)
                                        \o SubSeq(@, index + 1, Len(@))])

deleteObject(w, objectId) ==
    LET index == findIndex(w.objects, objectId)
        w1 == [w EXCEPT !.objects = SubSeq(@, 1, index - 1)
                                      \o SubSeq(@, index + 1, Len(@))]
        w2 == IF w.selectedObject = Some(objectId)
              THEN SetToolSelection([w1 EXCEPT !.selectedObject = Null], Null)
              ELSE w1
    IN  IF index = 0 THEN w ELSE redrawCanvas(w2)

\* A store that keeps coordinates from going below the origin.
moveObject_clampsAtOrigin(w, objectId, deltaX, deltaY) ==
    LET index == findIndex(w.objects, objectId)
        shift(ps) == [i \in 1 .. Len(ps) |->
                         Pt(Max2(0, ps[i].x + deltaX), Max2(0, ps[i].y + deltaY))]
    IN  IF index = 0 THEN w
        ELSE redrawCanvas([w EXCEPT !.objects[index] =
                 [@ EXCEPT !.x = Max2(0, @ + deltaX), !.y = Max2(0, @ + deltaY),
                           !.path = shift(@), !.points = shift(@)]])

\* A store that moves the stored position and leaves the point lists.
moveObject_positionOnly(w, objectId, deltaX, deltaY) ==
    LET index == findIndex(w.objects, objectId)
    IN  IF index = 0 THEN w
        ELSE redrawCanvas([w EXCEPT !.objects[index] =
                 [@ EXCEPT !.x = @ + deltaX, !.y = @ + deltaY]])

moveObject(w, objectId, deltaX, deltaY) ==
    LET index == findIndex(w.objects, objectId)
        shift(ps) == [i \in 1 .. Len(ps) |-> Pt(ps[i].x + deltaX, ps[i].y + deltaY)]
    IN  IF index = 0 THEN w
        ELSE redrawCanvas([w EXCEPT !.objects[index] =
                 [@ EXCEPT !.x = @ + deltaX, !.y = @ + deltaY,
                           !.path = shift(@), !.points = shift(@)]])

\* A scale factor is a rational n/d with d > 0.
Ratio(n, d) ==
    [n |-> n, d |-> d]

RatioMax(a, b) ==
    IF a.n * b.d >= b.n * a.d THEN a ELSE b

\* v * r, and whether the product is an integer.
Scaled(v, r) ==
    [value |-> (v * r.n) \div r.d, exact |-> (v * r.n) % r.d = 0]

\* A resize that scales about the object's origin.
resizeObject_aboutOrigin(w, objectId, scaleX, scaleY) ==
    LET index == findIndex(w.objects, objectId)
        o == w.objects[index]
        width == Scaled(o.width, scaleX)
        height == Scaled(o.height, scaleY)
        radius == Scaled(o.radius, RatioMax(scaleX, scaleY))
        exact == width.exact /\ height.exact /\ radius.exact
        o1 == [o EXCEPT !.width = width.value, !.height = height.value,
                        !.radius = IF o.radius # 0 THEN radius.value ELSE 0]
    IN  IF index = 0 THEN w
        ELSE redrawCanvas([w EXCEPT !.objects[index] = o1, !.inexact = @ \/ ~exact])

\* The new origin is centre - width / 2 with centre = x + oldWidth / 2.
resizeObject(w, objectId, scaleX, scaleY) ==
    LET index  == findIndex(w.objects, objectId)
        o      == w.objects[index]
        width  == Scaled(o.width, scaleX)
        height == Scaled(o.height, scaleY)
        radius == Scaled(o.radius, RatioMax(scaleX, scaleY))
        exact  == /\ width.exact /\ height.exact /\ radius.exact
                  /\ Even(o.width - width.value)
                  /\ Even(o.height - height.value)
        o1 == [o EXCEPT !.width = width.value, !.height = height.value,
                        !.x = o.x + (o.width - width.value) \div 2,
                        !.y = o.y + (o.height - height.value) \div 2,
                        !.radius = IF o.radius # 0 THEN radius.value ELSE 0]
    IN  IF index = 0 THEN w
        ELSE redrawCanvas([w EXCEPT !.objects[index] = o1,
                                    !.inexact = @ \/ ~exact])

\* ObjectManager.clear, with the listeners of objects:changed and
\* object:deselected.
ObjectManager_clear(w) ==
    SetToolSelection(
        redrawCanvas([w EXCEPT !.objects = <<>>, !.selectedObject = Null,
                               !.nextId = 1]),
        Null)

\* parseInt(obj.id.split('_')[1]) of an id 'obj_N' is N: ids are kept as N.
\* Math.max(...ids, 0) + 1 is the next id.  A text that is not JSON makes
\* JSON.parse throw before anything is assigned.  JSON whose objects do not
\* all carry an id string makes obj.id.split throw after objects and
\* selectedObject are assigned and before nextId is; the catch block only
\* logs.
importObjects(w, json) ==
    IF ~json.valid THEN w
    ELSE IF ~json.shaped
    THEN [w EXCEPT !.objects = json.objects, !.selectedObject = Null]
    ELSE LET ids == {json.objects[i].id : i \in 1 .. Len(json.objects)}
         IN  redrawCanvas([w EXCEPT !.objects = json.objects, !.selectedObject = Null,
                                    !.nextId = MaxOf(ids \cup {0}) + 1])

----------------------------------------------------------------------------
(* Tools.  A tool instance is a record; w.tools holds, in creation order,  *)
(* the instances that are the application's currentTool or are subscribed  *)
(* to the canvas events.                                                   *)

ToolKinds ==
    {"select", "pen", "eraser", "rectangle", "circle", "line", "arrow"}

\* The fields set by the constructors of BaseTool and of its subclasses.
\* awaiting: the instance has its one-time properties:response listener on
\* the bus; gotResponse: that listener has run and has passed the panel's
\* properties to updateProperties.
NewTool(kind) ==
    [kind |-> kind, isActive |-> FALSE, isDrawing |-> FALSE,
     subscribed |-> FALSE, current |-> FALSE,
     awaiting |-> FALSE, gotResponse |-> FALSE,
     startPoint |-> Null, savedState |-> Null, path |-> <<>>,
     selectedObject |-> Null, isMoving |-> FALSE, isResizing |-> FALSE,
     dragStartPoint |-> Null, resizeHandle |-> Null]

\* eventBus.emit('canvas:change'): the listener drops the ImageData it passed
\* to saveState when it returns.
emitCanvasChange(w) ==
    LET r == onCanvasChange(w)
    IN  [r.w EXCEPT !.heap = Collect(@, r.w.states, {})]

Done(w, gesture) ==
    [w EXCEPT !.completed = Append(@, gesture)]

\* Pixels a tool paints directly on the raster.
Ink(w, mark) ==
    [w EXCEPT !.canvas.ink = @ \cup {mark}]

\* The ImageData a tool keeps in savedState is reachable from that tool
\* only; it is held by its content.
saveCanvasState(w, i) ==
    [w EXCEPT !.tools[i].savedState = Some(w.canvas)]

restoreCanvasState(w, i) ==
    IF w.tools[i].savedState = Null THEN w
    ELSE [w EXCEPT !.canvas = The(w.tools[i].savedState)]

(* PenTool *)

PenTool_startDrawing(w, i, p) ==
    [w EXCEPT !.tools[i].path = <<p>>, !.cmIsDrawing = TRUE]

\* Past the second point the stroke is painted by the tool itself, before
\* that by CanvasManager.continueDrawing, which paints only while the
\* canvas manager is drawing.
PenTool_continueDrawing(w, i, p) ==
    LET old == w.tools[i].path
        w1  == [w EXCEPT !.tools[i].path = Append(@, p)]
        moved == old # <<>> /\ old[Len(old)] # p
    IN  IF Len(old) + 1 > 2
        THEN IF moved THEN Ink(w1, "stroke") ELSE w1
        ELSE IF w1.cmIsDrawing /\ moved THEN Ink(w1, "stroke") ELSE w1

CanvasManager_endDrawing(w) ==
    IF ~w.cmIsDrawing THEN w
    ELSE emitCanvasChange([w EXCEPT !.cmIsDrawing = FALSE])

PenTool_endDrawing(w, i, p) ==
    LET object == [type |-> "freehand", x |-> 0, y |-> 0, width |-> 0,
                   height |-> 0, radius |-> 0, path |-> w.tools[i].path,
                   points |-> <<>>]
        w1 == IF Len(w.tools[i].path) > 0
              THEN Done(CanvasManager_endDrawing(addObject(w, object)), "pen")
              ELSE w
    IN  [w1 EXCEPT !.tools[i].path = <<>>]

(* EraserTool *)

\* destination-out compositing: nothing to remove from a blank raster.
erase(w, p) ==
    IF w.canvas = Blank THEN w ELSE Ink(w, "erase")

EraserTool_endDrawing(w, i, p) ==
    Done(emitCanvasChange(w), "eraser")

(* RectangleTool, CircleTool, LineTool, ArrowTool *)

ShapeTool_startDrawing(w, i, p) ==
    saveCanvasState([w EXCEPT !.tools[i].startPoint = Some(p)], i)

\* The preview of a line, rectangle or circle of no extent paints nothing;
\* an arrow always paints its head.
ShapeTool_continueDrawing(w, i, p) ==
    LET t == w.tools[i]
        w1 == restoreCanvasState(w, i)
    IN  IF t.startPoint = Null THEN w
        ELSE IF t.kind = "arrow" \/ The(t.startPoint) # p
             THEN Ink(w1, "preview") ELSE w1

RectangleTool_endDrawing(w, i, p) ==
    LET s == The(w.tools[i].startPoint)
        object == [type |-> "rectangle",
                   x |-> Min2(s.x, p.x), y |-> Min2(s.y, p.y),
                   width |-> Abs(p.x - s.x), height |-> Abs(p.y - s.y),
                   radius |-> 0, path |-> <<>>, points |-> <<>>]
        w1 == addObject(restoreCanvasState(w, i), object)
        w2 == [w1 EXCEPT !.tools[i].startPoint = Null]
    IN  IF w.tools[i].startPoint = Null THEN w
        ELSE Done(emitCanvasChange(w2), "rectangle")

CircleTool_endDrawing(w, i, p) ==
    LET s == The(w.tools[i].startPoint)
        d == Sqrt((p.x - s.x) * (p.x - s.x) + (p.y - s.y) * (p.y - s.y))
        object == [type |-> "circle",
                   x |-> (s.x + p.x) \div 2, y |-> (s.y + p.y) \div 2,
                   radius |-> d.root \div 2,
                   width |-> 0, height |-> 0, path |-> <<>>, points |-> <<>>]
        exact == d.exact /\ Even(d.root) /\ Even(s.x + p.x) /\ Even(s.y + p.y)
        w1 == addObject(restoreCanvasState(w, i), object)
        w2 == [w1 EXCEPT !.tools[i].startPoint = Null,
                         !.inexact = @ \/ ~exact]
    IN  IF w.tools[i].startPoint = Null THEN w
        ELSE Done(emitCanvasChange(w2), "circle")

\* LineTool and ArrowTool paint on the raster and add no object.
LineTool_endDrawing(w, i, p) ==
    LET t  == w.tools[i]
        w1 == restoreCanvasState(w, i)
        w2 == IF t.kind = "arrow" THEN Ink(w1, "arrow")
              ELSE IF The(t.startPoint) # p THEN Ink(w1, "line") ELSE w1
        w3 == [w2 EXCEPT !.tools[i].startPoint = Null]
    IN  IF t.startPoint = Null THEN w
        ELSE Done(emitCanvasChange(w3), t.kind)

(* SelectionTool *)

\* The eight handles of a bounding box, in the order they are tried.  The
\* coordinates are doubled: the mid-edge handles sit at half widths.
getResizeHandles(bounds) ==
    LET x == bounds.x
        y == bounds.y
        width == bounds.width
        height == bounds.height
    IN  << [type |-> "nw", x2 |-> 2 * x,             y2 |-> 2 * y],
           [type |-> "n",  x2 |-> 2 * x + width,     y2 |-> 2 * y],
           [type |-> "ne", x2 |-> 2 * (x + width),   y2 |-> 2 * y],
           [type |-> "e",  x2 |-> 2 * (x + width),   y2 |-> 2 * y + height],
           [type |-> "se", x2 |-> 2 * (x + width),   y2 |-> 2 * (y + height)],
           [type |-> "s",  x2 |-> 2 * x + width,     y2 |-> 2 * (y + height)],
           [type |-> "sw", x2 |-> 2 * x,             y2 |-> 2 * (y + height)],
           [type |-> "w",  x2 |-> 2 * x,             y2 |-> 2 * y + height] >>

\* The object a tool instance has selected, looked up by its id.
SelectedOf(w, i) ==
    The(getObject(w.objects, The(w.tools[i].selectedObject)))

getResizeHandleAt(w, i, x, y) ==
    LET handles == getResizeHandles(getObjectBounds(SelectedOf(w, i)))
        near == {k \in 1 .. Len(handles) :
                    (2 * x - handles[k].x2) * (2 * x - handles[k].x2)
                  + (2 * y - handles[k].y2) * (2 * y - handles[k].y2)
                        <= (2 * handleSize) * (2 * handleSize)}
    IN  IF w.tools[i].selectedObject = Null \/ near = {} THEN Null
        ELSE Some(handles[MinOf(near)].type)

\* A selection tool that hit-tests the store before it looks at the handles
\* and the body of the selected object.
SelectionTool_startDrawing_hitTestFirst(w, i, p) ==
    LET t  == w.tools[i]
        w1 == [w EXCEPT !.tools[i].dragStartPoint = Some(p)]
        handle == getResizeHandleAt(w, i, p.x, p.y)
        clickedObject == getObjectAtPosition(w.objects, p.x, p.y)
    IN  IF clickedObject # Null /\ Some(The(clickedObject).id) # t.selectedObject
        THEN selectObject(w1, The(clickedObject).id)
        ELSE IF t.selectedObject # Null /\ handle # Null
        THEN [w1 EXCEPT !.tools[i].isResizing = TRUE,
                        !.tools[i].resizeHandle = handle]
        ELSE IF t.selectedObject # Null
                /\ isPointInObject(p.x, p.y, SelectedOf(w, i))
        THEN [w1 EXCEPT !.tools[i].isMoving = TRUE]
        ELSE IF clickedObject # Null THEN w1
        ELSE deselectAll(w1)

SelectionTool_startDrawing(w, i, p) ==
    LET t  == w.tools[i]
        w1 == [w EXCEPT !.tools[i].dragStartPoint = Some(p)]
        handle == getResizeHandleAt(w, i, p.x, p.y)
        clickedObject == getObjectAtPosition(w.objects, p.x, p.y)
        pick == IF clickedObject # Null
                THEN selectObject(w1, The(clickedObject).id)
                ELSE deselectAll(w1)
    IN  IF t.selectedObject # Null
        THEN IF handle # Null
             THEN [w1 EXCEPT !.tools[i].isResizing = TRUE,
                             !.tools[i].resizeHandle = handle]
             ELSE IF isPointInObject(p.x, p.y, SelectedOf(w, i))
                  THEN [w1 EXCEPT !.tools[i].isMoving = TRUE]
                  ELSE pick
        ELSE pick

\* A circle that takes the larger side of the box as its diameter.
applyNewBounds_largerSide(w, objectId, newBounds) ==
    LET index == findIndex(w.objects, objectId)
        o  == w.objects[index]
        o1 == [o EXCEPT !.x = newBounds.x, !.y = newBounds.y,
                        !.width = newBounds.width, !.height = newBounds.height]
        o2 == IF o.type = "circle"
              THEN [o1 EXCEPT !.radius = Max2(newBounds.width, newBounds.height) \div 2,
                              !.x = newBounds.x + newBounds.width \div 2,
                              !.y = newBounds.y + newBounds.height \div 2]
              ELSE o1
    IN  redrawCanvas([w EXCEPT !.objects[index] = o2])

applyNewBounds(w, objectId, newBounds) ==
    LET index == findIndex(w.objects, objectId)
        o  == w.objects[index]
        o1 == [o EXCEPT !.x = newBounds.x, !.y = newBounds.y,
                        !.width = newBounds.width, !.height = newBounds.height]
        least == Min2(newBounds.width, newBounds.height)
        o2 == CASE o.type = "circle" ->
                       [o1 EXCEPT !.radius = least \div 2,
                                  !.x = newBounds.x + newBounds.width \div 2,
                                  !.y = newBounds.y + newBounds.height \div 2]
                [] o.type \in {"line", "arrow"} /\ Len(o.points) >= 2 ->
                       [o1 EXCEPT !.points =
                            <<Pt(newBounds.x, newBounds.y),
                              Pt(newBounds.x + newBounds.width,
                                 newBounds.y + newBounds.height)>>
                            \o SubSeq(o.points, 3, Len(o.points))]
                [] OTHER -> o1
        exact == o.type = "circle" =>
                    Even(least) /\ Even(newBounds.width) /\ Even(newBounds.height)
    IN  redrawCanvas([w EXCEPT !.objects[index] = o2,
                               !.inexact = @ \/ ~exact])

\* A resize that applies the box as the pointer leaves it.
resizeSelectedObject_noFloor(w, i, x, y) ==
    LET t == w.tools[i]
        bounds == getObjectBounds(SelectedOf(w, i))
        handle == The(t.resizeHandle)
        nb == CASE handle \in {"nw", "sw", "w"} ->
                       [bounds EXCEPT !.width = bounds.x + bounds.width - x, !.x = x]
                [] handle \in {"ne", "se", "e"} ->
                       [bounds EXCEPT !.width = x - bounds.x]
                [] OTHER -> bounds
        newBounds == CASE handle \in {"nw", "ne", "n"} ->
                              [nb EXCEPT !.height = bounds.y + bounds.height - y, !.y = y]
                       [] handle \in {"sw", "se", "s"} ->
                              [nb EXCEPT !.height = y - bounds.y]
                       [] OTHER -> nb
    IN  IF t.resizeHandle = Null \/ t.selectedObject = Null THEN w
        ELSE applyNewBounds(w, The(t.selectedObject), newBounds)

resizeSelectedObject(w, i, x, y) ==
    LET t == w.tools[i]
        bounds == getObjectBounds(SelectedOf(w, i))
        handle == The(t.resizeHandle)
        right  == bounds.x + bounds.width
        bottom == bounds.y + bounds.height
        nb == CASE handle = "nw" -> [x |-> x, y |-> y,
                                     width |-> right - x, height |-> bottom - y]
                [] handle = "n"  -> [bounds EXCEPT !.height = bottom - y, !.y = y]
                [] handle = "ne" -> [bounds EXCEPT !.width = x - bounds.x,
                                                   !.height = bottom - y, !.y = y]
                [] handle = "e"  -> [bounds EXCEPT !.width = x - bounds.x]
                [] handle = "se" -> [bounds EXCEPT !.width = x - bounds.x,
                                                   !.height = y - bounds.y]
                [] handle = "s"  -> [bounds EXCEPT !.height = y - bounds.y]
                [] handle = "sw" -> [bounds EXCEPT !.width = right - x,
                                                   !.height = y - bounds.y, !.x = x]
                [] handle = "w"  -> [bounds EXCEPT !.width = right - x, !.x = x]
                [] OTHER -> bounds
        newBounds == [nb EXCEPT !.width = Max2(minResize, @),
                                !.height = Max2(minResize, @)]
    IN  IF t.resizeHandle = Null \/ t.selectedObject = Null THEN w
        ELSE applyNewBounds(w, The(t.selectedObject), newBounds)

\* fillRect paints when both extents are non-zero, strokeRect when one is.
drawSelectionRectangle(w, a, b) ==
    IF a # b THEN Ink(w, "selrect") ELSE w

SelectionTool_continueDrawing(w, i, p) ==
    LET t == w.tools[i]
        s == The(t.dragStartPoint)
    IN  IF t.dragStartPoint = Null THEN w
        ELSE IF t.isMoving /\ t.selectedObject # Null
             THEN [moveObject(w, The(t.selectedObject), p.x - s.x, p.y - s.y)
                       EXCEPT !.tools[i].dragStartPoint = Some(p)]
        ELSE IF t.isResizing /\ t.selectedObject # Null
             THEN resizeSelectedObject(w, i, p.x, p.y)
        ELSE IF t.selectedObject = Null
             THEN drawSelectionRectangle(w, s, p)
        ELSE w

SelectionTool_endDrawing(w, i, p) ==
    LET t  == w.tools[i]
        w1 == IF t.isMoving \/ t.isResizing THEN emitCanvasChange(w) ELSE w
        w2 == IF t.isMoving THEN Done(w1, "move") ELSE w1
        w3 == IF t.isResizing THEN Done(w2, "resize") ELSE w2
    IN  [w3 EXCEPT !.tools[i].isMoving = FALSE,
                   !.tools[i].isResizing = FALSE,
                   !.tools[i].resizeHandle = Null,
                   !.tools[i].dragStartPoint = Null]

\* document keydown with Delete or Backspace, as one SelectionTool instance
\* handles it.
SelectionTool_onKeyDown(w, sel) ==
    IF sel # Null THEN deleteObject(w, The(sel)) ELSE w

(* BaseTool *)

startDrawing(w, i, p) ==
    CASE w.tools[i].kind = "select" -> SelectionTool_startDrawing(w, i, p)
      [] w.tools[i].kind = "pen"    -> PenTool_startDrawing(w, i, p)
      [] w.tools[i].kind = "eraser" -> erase(w, p)
      [] OTHER                      -> ShapeTool_startDrawing(w, i, p)

continueDrawing(w, i, p) ==
    CASE w.tools[i].kind = "select" -> SelectionTool_continueDrawing(w, i, p)
      [] w.tools[i].kind = "pen"    -> PenTool_continueDrawing(w, i, p)
      [] w.tools[i].kind = "eraser" -> erase(w, p)
      [] OTHER                      -> ShapeTool_continueDrawing(w, i, p)

endDrawing(w, i, p) ==
    CASE w.tools[i].kind = "select"    -> SelectionTool_endDrawing(w, i, p)
      [] w.tools[i].kind = "pen"       -> PenTool_endDrawing(w, i, p)
      [] w.tools[i].kind = "eraser"    -> EraserTool_endDrawing(w, i, p)
      [] w.tools[i].kind = "rectangle" -> RectangleTool_endDrawing(w, i, p)
      [] w.tools[i].kind = "circle"    -> CircleTool_endDrawing(w, i, p)
      [] OTHER                         -> LineTool_endDrawing(w, i, p)

getCursor(kind) ==
    CASE kind = "select" -> "default"
      [] kind = "eraser" -> "none"
      [] OTHER           -> "crosshair"

\* A setCursor that writes the cursor it is called with.
setCursor_asRequested(w, i, requested) ==
    [w EXCEPT !.cursor = Some(requested)]

\* setCursor() declares no parameter: what the caller passes is dropped.
setCursor(w, i, requested) ==
    [w EXCEPT !.cursor = Some(getCursor(w.tools[i].kind))]

getResizeCursor(handleType) ==
    handleType \o "-resize"

SelectionTool_onHover(w, i, p) ==
    IF w.tools[i].selectedObject = Null THEN setCursor(w, i, "default")
    ELSE LET handle == getResizeHandleAt(w, i, p.x, p.y)
         IN  IF handle # Null
             THEN setCursor(w, i, getResizeCursor(The(handle)))
             ELSE IF isPointInObject(p.x, p.y, SelectedOf(w, i))
                  THEN setCursor(w, i, "move")
                  ELSE setCursor(w, i, "default")

\* The eraser shows a preview element of its own on hover; the other tools
\* inherit the empty onHover.
onHover(w, i, p) ==
    IF w.tools[i].kind = "select" THEN SelectionTool_onHover(w, i, p) ELSE w

onMouseDown(w, i, p) ==
    IF ~w.tools[i].isActive THEN w
    ELSE startDrawing([w EXCEPT !.tools[i].isDrawing = TRUE], i, p)

onMouseMove(w, i, p) ==
    IF ~w.tools[i].isActive THEN w
    ELSE IF w.tools[i].isDrawing THEN continueDrawing(w, i, p)
         ELSE onHover(w, i, p)

onMouseUp(w, i, p) ==
    IF ~w.tools[i].isActive \/ ~w.tools[i].isDrawing THEN w
    ELSE endDrawing([w EXCEPT !.tools[i].isDrawing = FALSE], i, p)

\* eventBus.off(event) deletes every listener of the event, whichever
\* instance or component registered it.
removeEventListeners(w) ==
    [w EXCEPT !.tools = [j \in 1 .. Len(w.tools) |->
                            [w.tools[j] EXCEPT !.subscribed = FALSE]],
              !.cmListening = FALSE]

\* emit('properties:request') runs the panel's listener, which emits
\* properties:response to the listeners on the bus at that moment; each is
\* a one-time listener.  The instance registers its own listener after the
\* emit has returned.
requestCurrentProperties(w, i) ==
    LET heard == [j \in 1 .. Len(w.tools) |->
                     IF w.tools[j].awaiting
                     THEN [w.tools[j] EXCEPT !.awaiting = FALSE,
                                             !.gotResponse = TRUE]
                     ELSE w.tools[j]]
    IN  [w EXCEPT !.tools = [heard EXCEPT ![i].awaiting = TRUE]]

\* Every tool but the selection tool sets its cursor after super.activate().
activate(w, i) ==
    LET w1 == requestCurrentProperties(
                  [w EXCEPT !.tools[i].isActive = TRUE,
                            !.tools[i].subscribed = TRUE], i)
    IN  IF w.tools[i].kind = "select" THEN w1
        ELSE setCursor(w1, i, getCursor(w.tools[i].kind))

\* A deactivate that tears nothing down.
BaseTool_deactivate_leavesRunning(w, i) ==
    w

BaseTool_deactivate(w, i) ==
    [removeEventListeners([w EXCEPT !.tools[i].isActive = FALSE])
        EXCEPT !.tools[i].isDrawing = FALSE]

\* The subclasses call super.deactivate() first and test isDrawing after.
deactivate(w, i) ==
    LET w1 == BaseTool_deactivate(w, i)
        k  == w.tools[i].kind
    IN  CASE k = "select" -> deselectAll(w1)
          [] k \in {"rectangle", "circle", "line", "arrow"} ->
                 IF w1.tools[i].isDrawing
                 THEN [restoreCanvasState(w1, i) EXCEPT !.tools[i].startPoint = Null]
                 ELSE w1
          [] OTHER -> w1

\* An instance that is neither currentTool nor subscribed is unreachable
\* but for the listeners a SelectionTool leaves behind (object:selected,
\* object:deselected, document keydown): of such an instance its
\* selectedObject is kept.  Of an unsubscribed currentTool only the fields
\* that deactivate() and the selection listeners use are kept.
Retire(w) ==
    LET dead(t) == ~t.current /\ ~t.subscribed
        gone == {w.tools[j].selectedObject :
                    j \in {k \in 1 .. Len(w.tools) :
                              dead(w.tools[k]) /\ w.tools[k].kind = "select"}}
        kept == SelectSeq(w.tools, LAMBDA t : ~dead(t))
        rest(t) == IF t.subscribed THEN t
                   ELSE [NewTool(t.kind) EXCEPT !.current = t.current,
                                                !.isActive = t.isActive,
                                                !.awaiting = t.awaiting,
                                                !.gotResponse = t.gotResponse,
                                                !.selectedObject = t.selectedObject]
    IN  [w EXCEPT !.tools = [j \in 1 .. Len(kept) |-> rest(kept[j])],
                  !.ghosts = @ \cup gone]

----------------------------------------------------------------------------
(* DrawingApp: tool selection, keyboard, clear *)

\* selectTool up to its await: the current tool is deactivated and the
\* module load starts.
selectTool_begin(w, toolName) ==
    LET cur == currentTool(w)
        w1  == IF cur # 0 THEN deactivate(w, cur) ELSE w
    IN  Retire([w1 EXCEPT !.pending = Append(@, toolName)])

\* selectTool after its await, for the k-th load in flight: a new instance
\* becomes currentTool and is activated.
selectTool_activated(w, k) ==
    LET others == [j \in 1 .. Len(w.tools) |->
                      [w.tools[j] EXCEPT !.current = FALSE]]
        made   == [NewTool(w.pending[k]) EXCEPT !.current = TRUE]
        w1     == [w EXCEPT !.tools = Append(others, made),
                            !.pending = SubSeq(@, 1, k - 1)
                                          \o SubSeq(@, k + 1, Len(@))]
    IN  activate(w1, Len(w1.tools))

selectTool_resume(w, k) ==
    Retire(selectTool_activated(w, k))

\* eventBus.emit of a canvas pointer event: the subscribed instances handle
\* it in subscription order.
RECURSIVE emitMouse(_, _, _, _)
emitMouse(w, event, p, i) ==
    IF i > Len(w.tools) THEN w
    ELSE LET t  == w.tools[i]
             w1 == IF ~t.subscribed THEN w
                   ELSE CASE event = "mousedown" -> onMouseDown(w, i, p)
                          [] event = "mousemove" -> onMouseMove(w, i, p)
                          [] OTHER               -> onMouseUp(w, i, p)
         IN  emitMouse(w1, event, p, i + 1)

\* A Delete or Backspace keydown runs the keydown listener of every
\* SelectionTool instance ever activated.  Each listener reads its own
\* selectedObject when it runs.
RECURSIVE onKeyDelete(_, _)
onKeyDelete(w, i) ==
    IF i > Len(w.tools)
    THEN LET left == w.ghosts \ {Null}
         IN  IF left = {} THEN w
             ELSE SelectionTool_onKeyDown(w, CHOOSE g \in left : TRUE)
    ELSE onKeyDelete(IF w.tools[i].kind = "select"
                     THEN SelectionTool_onKeyDown(w, w.tools[i].selectedObject)
                     ELSE w,
                     i + 1)

\* action:clear
onActionClear(w) ==
    emitCanvasChange(CanvasManager_clear(w))

----------------------------------------------------------------------------
(* Committing a world *)

Observed(op, ret, w) ==
    [op |-> op, ret |-> ret, pushes |-> w.pushes, threw |-> w.threw,
     completed |-> w.completed, preLen |-> Len(states), preIdx |-> currentIndex]

\* The program variables take the values of the world the handler ends in.
Settle(w, hd) ==
    LET name == Rename(w.states, hd)
        live == Collect(w.heap, w.states, HeldRefs(hd))
        to(o) == IF o = Null THEN Null ELSE Some(name[The(o)])
    IN  /\ states' = [i \in 1 .. Len(w.states) |-> name[w.states[i]]]
        /\ currentIndex' = w.currentIndex
        /\ heap' = [n \in {name[r] : r \in DOMAIN live} |->
                        live[CHOOSE r \in DOMAIN live : name[r] = n]]
        /\ toolbar' = w.toolbar
        /\ canvas' = w.canvas
        /\ held' = [passed |-> to(hd.passed), returned |-> to(hd.returned)]
        /\ objects' = w.objects
        /\ selectedObject' = w.selectedObject
        /\ nextId' = w.nextId
        /\ issued' = w.issued
        /\ tools' = w.tools
        /\ pending' = w.pending
        /\ ghosts' = w.ghosts
        /\ cmIsDrawing' = w.cmIsDrawing
        /\ isRedrawing' = w.isRedrawing
        /\ cmListening' = w.cmListening
        /\ used' = w.used

\* A step of the history-engine specification also records what the
\* handler was seen to do.
Commit(w, hd, op, ret) ==
    LET name == Rename(w.states, hd)
    IN  /\ Settle(w, hd)
        /\ last' = Observed(op, IF ret = Null THEN Null ELSE Some(name[The(ret)]), w)

----------------------------------------------------------------------------
(* The history-engine specification: the engine driven through the         *)
(* application's handlers by a caller that keeps the ImageData it passed   *)
(* and the ImageData it got back, and may write to them.                   *)

Init ==
    /\ states = <<>>
    /\ currentIndex = -1
    /\ heap = <<>>
    /\ toolbar = [canUndo |-> FALSE, canRedo |-> FALSE]
    /\ canvas = Blank
    /\ held = [passed |-> Null, returned |-> Null]
    /\ objects = <<>>
    /\ selectedObject = Null
    /\ nextId = 1
    /\ issued = <<>>
    /\ tools = <<>>
    /\ pending = <<"select">>
    /\ ghosts = {}
    /\ cmIsDrawing = FALSE
    /\ isRedrawing = FALSE
    /\ cmListening = TRUE
    /\ used = [selects |-> 0, downs |-> 0, moves |-> 0, edits |-> 0]
    /\ last = [op |-> "init", ret |-> Null, pushes |-> 0, threw |-> FALSE,
               completed |-> <<>>, preLen |-> 0, preIdx |-> -1]

\* The environment paints on the canvas.
H_Paint ==
    \E p \in SamplePictures :
        /\ p # canvas
        /\ Commit([World EXCEPT !.canvas = p], held, "paint", Null)

H_Push ==
    LET r == onCanvasChange(World)
    IN  Commit(r.w, [held EXCEPT !.passed = Some(r.passed)], "push", Null)

H_Undo ==
    LET r == onActionUndo(World)
    IN  Commit(r.w, [held EXCEPT !.returned = r.ret],
               "undo", r.ret)

H_Redo ==
    LET r == onActionRedo(World)
    IN  Commit(r.w, [held EXCEPT !.returned = r.ret],
               "redo", r.ret)

H_Clear ==
    Commit(StateManager_clear(World), held, "clear", Null)

\* The caller writes into an ImageData it holds.
H_Mutate ==
    \E r \in HeldRefs(held) : \E p \in SamplePictures :
        /\ p # heap[r]
        /\ Commit([World EXCEPT !.heap = Store(@, r, p)], held, "mutate", Null)

HistoryNext ==
    \/ H_Paint
    \/ H_Push
    \/ H_Undo
    \/ H_Redo
    \/ H_Clear
    \/ H_Mutate

HistorySpec ==
    Init /\ [][HistoryNext]_vars

----------------------------------------------------------------------------
(* The application specification: the user's pointer, keyboard and toolbar *)
(* events, the completion of module loads and the frames of the render     *)
(* loop, in any order.  It starts when the canvas is initialised and the   *)
(* render loop runs, with the load of the default tool in flight.          *)

\* Bounds of the application specification.
MaxObjects ==
    1

MaxId ==
    2

\* At most MaxPending module loads are in flight at a time.
MaxPending ==
    1

\* The user selects a tool at most MaxSelects times, presses the pointer at
\* most MaxDowns times and moves it at most MaxMoves times after a press.
MaxSelects ==
    2

MaxDowns ==
    2

MaxMoves ==
    1

\* Where the pointer can be.
Points ==
    {Pt(0, 0), Pt(12, 16), Pt(24, 32)}

NoHeld ==
    [passed |-> Null, returned |-> Null]

\* The worlds within the bounds; a step that would leave them is not taken.
Bounded(w, loads, downs) ==
    /\ ~w.inexact
    /\ Len(w.objects) <= MaxObjects
    /\ w.nextId <= MaxId + 1
    /\ Len(w.pending) <= loads
    /\ w.used.selects <= MaxSelects
    /\ w.used.downs <= downs
    /\ w.used.moves <= MaxMoves

Within(w) ==
    Bounded(w, MaxPending, MaxDowns)

Step(w) ==
    Within(w) /\ Settle(w, NoHeld) /\ UNCHANGED last

ToolSelect ==
    \E toolName \in ToolKinds :
        Step(selectTool_begin([World EXCEPT !.used.selects = @ + 1], toolName))

ToolLoaded ==
    \E k \in 1 .. Len(pending) :
        Step(selectTool_resume(World, k))

MouseDown ==
    \E p \in Points :
        Step(emitMouse([World EXCEPT !.used.downs = @ + 1, !.used.moves = 0],
                       "mousedown", p, 1))

MouseMove ==
    \E p \in Points :
        Step(emitMouse([World EXCEPT !.used.moves = @ + 1], "mousemove", p, 1))

MouseUp ==
    \E p \in Points : Step(emitMouse(World, "mouseup", p, 1))

KeyDelete ==
    Step(onKeyDelete(World, 1))

ActionUndo ==
    Step(onActionUndo(World).w)

ActionRedo ==
    Step(onActionRedo(World).w)

ActionClear ==
    Step(onActionClear(World))

\* One frame of the render loop.
Frame ==
    Step(redrawCanvas(World))

Next ==
    \/ ToolSelect
    \/ ToolLoaded
    \/ MouseDown
    \/ MouseMove
    \/ MouseUp
    \/ KeyDelete
    \/ ActionUndo
    \/ ActionRedo
    \/ ActionClear
    \/ Frame

Spec ==
    Init /\ [][Next]_vars

----------------------------------------------------------------------------
(* The tool-race specification: the user selects a tool while the module   *)
(* of an earlier selection is still loading, and then works the pointer    *)
(* or clears the canvas.                                                   *)

RacePending ==
    2

RaceDowns ==
    2

RaceStep(w) ==
    Bounded(w, RacePending, RaceDowns) /\ Settle(w, NoHeld) /\ UNCHANGED last

R_ToolSelect ==
    \E toolName \in ToolKinds :
        RaceStep(selectTool_begin([World EXCEPT !.used.selects = @ + 1], toolName))

R_ToolLoaded ==
    \E k \in 1 .. Len(pending) :
        RaceStep(selectTool_resume(World, k))

R_MouseDown ==
    \E p \in Points :
        RaceStep(emitMouse([World EXCEPT !.used.downs = @ + 1, !.used.moves = 0],
                           "mousedown", p, 1))

R_MouseMove ==
    \E p \in Points :
        RaceStep(emitMouse([World EXCEPT !.used.moves = @ + 1], "mousemove", p, 1))

R_MouseUp ==
    \E p \in Points : RaceStep(emitMouse(World, "mouseup", p, 1))

R_ActionClear ==
    RaceStep(onActionClear(World))

RaceNext ==
    \/ R_ToolSelect
    \/ R_ToolLoaded
    \/ R_MouseDown
    \/ R_MouseMove
    \/ R_MouseUp
    \/ R_ActionClear

RaceSpec ==
    Init /\ [][RaceNext]_vars

----------------------------------------------------------------------------
(* The object-store specification: the ObjectManager driven through its    *)
(* operations, as the listeners of object:add, object:select,              *)
(* object:deselect, object:delete, object:move and object:resize call them.*)

MaxStoreObjects ==
    2

\* How many ids addObject hands out in a behaviour.
MaxIssued ==
    3

\* How many move and resize calls are made in a behaviour.
MaxEdits ==
    2

\* The objects the callers of addObject pass: one of each type.
SampleObjects ==
    LET none == [type |-> "rectangle", x |-> 0, y |-> 0, width |-> 0,
                 height |-> 0, radius |-> 0, path |-> <<>>, points |-> <<>>]
    IN  { [none EXCEPT !.width = 24, !.height = 32],
          [none EXCEPT !.type = "circle", !.x = 12, !.y = 16, !.radius = 10],
          [none EXCEPT !.type = "line", !.points = <<Pt(0, 0), Pt(24, 32)>>],
          [none EXCEPT !.type = "arrow", !.points = <<Pt(24, 0), Pt(0, 0)>>],
          [none EXCEPT !.type = "freehand",
                       !.path = <<Pt(0, 0), Pt(12, 16), Pt(24, 0)>>] }

Deltas ==
    {Pt(12, 16), Pt(-12, -16)}

Scales ==
    { <<Ratio(2, 1), Ratio(2, 1)>>, <<Ratio(1, 2), Ratio(1, 2)>>,
      <<Ratio(2, 1), Ratio(1, 1)>>, <<Ratio(-1, 1), Ratio(1, 1)>> }

\* Ids a caller may name: those handed out and one that never was.
NamedIds ==
    1 .. (MaxIssued + 1)

StoreStep(w) ==
    /\ ~w.inexact
    /\ Len(w.objects) <= MaxStoreObjects
    /\ Len(w.issued) <= MaxIssued
    /\ w.used.edits <= MaxEdits
    /\ Settle(w, NoHeld)
    /\ UNCHANGED last

S_Add ==
    \E object \in SampleObjects : StoreStep(addObject(World, object))

S_Select ==
    \E id \in NamedIds : StoreStep(selectObject(World, id))

S_Deselect ==
    StoreStep(deselectAll(World))

S_Delete ==
    \E id \in NamedIds : StoreStep(deleteObject(World, id))

S_Move ==
    \E id \in NamedIds, d \in Deltas :
        StoreStep(moveObject([World EXCEPT !.used.edits = @ + 1], id, d.x, d.y))

S_Resize ==
    \E id \in NamedIds, sc \in Scales :
        StoreStep(resizeObject([World EXCEPT !.used.edits = @ + 1],
                               id, sc[1], sc[2]))

StoreNext ==
    \/ S_Add
    \/ S_Select
    \/ S_Deselect
    \/ S_Delete
    \/ S_Move
    \/ S_Resize

StoreSpec ==
    Init /\ [][StoreNext]_vars

(* The same store, with clear() and importObjects() as well. *)

\* What a project file may hold: text that is not JSON, an empty list,
\* lists of exported objects, some with visible set to false, and a list
\* whose object has no id (written as id 0, which addObject never issues).
SampleImports ==
    LET stored(object, id, visible) ==
            [id |-> id, type |-> object.type, x |-> object.x, y |-> object.y,
             width |-> object.width, height |-> object.height,
             path |-> object.path, points |-> object.points,
             radius |-> object.radius, visible |-> visible]
        rect == CHOOSE o \in SampleObjects : o.type = "rectangle"
        line == CHOOSE o \in SampleObjects : o.type = "line"
    IN  { [valid |-> FALSE, shaped |-> FALSE, objects |-> <<>>],
          [valid |-> TRUE, shaped |-> TRUE, objects |-> <<>>],
          [valid |-> TRUE, shaped |-> TRUE, objects |-> <<stored(rect, 3, FALSE)>>],
          [valid |-> TRUE, shaped |-> TRUE,
           objects |-> <<stored(line, 1, TRUE), stored(rect, 2, FALSE)>>],
          [valid |-> TRUE, shaped |-> FALSE, objects |-> <<stored(rect, 0, TRUE)>>] }

S_Clear ==
    StoreStep(ObjectManager_clear(World))

S_Import ==
    \E json \in SampleImports : StoreStep(importObjects(World, json))

StoreResetNext ==
    \/ StoreNext
    \/ S_Clear
    \/ S_Import

StoreResetSpec ==
    Init /\ [][StoreResetNext]_vars

(* The same store, driven once the default selection tool has loaded and    *)
(* listens to the store's selection events.                                 *)

S_ToolLoaded ==
    \E k \in 1 .. Len(pending) :
        StoreStep(selectTool_resume(World, k))

\* The controller is followed on stores of one object.
ControllerNext ==
    \/ S_ToolLoaded
    \/ /\ tools # <<>>
       /\ StoreResetNext
       /\ Len(objects') <= MaxObjects

ControllerSpec ==
    Init /\ [][ControllerNext]_vars

----------------------------------------------------------------------------
(* The selection specification: the default selection tool loads, objects  *)
(* arrive through object:add, and the user works the pointer on them.      *)

MaxPointerObjects ==
    2

MaxPointerDowns ==
    3

\* A rectangle and a circle that lies within it.
PointerObjects ==
    {o \in SampleObjects : o.type \in {"rectangle", "circle"}}

\* Where the pointer can be: on a corner handle of the rectangle, inside the
\* rectangle and the circle, on the far corner, on the top and right edge
\* handles of both, and away from both.
PointerPoints ==
    Points \cup {Pt(12, 0), Pt(24, 16), Pt(48, 48)}

PointerStep(w) ==
    /\ ~w.inexact
    /\ Len(w.objects) <= MaxPointerObjects
    /\ w.used.downs <= MaxPointerDowns
    /\ w.used.moves <= MaxMoves
    /\ Settle(w, NoHeld)
    /\ UNCHANGED last

P_ToolLoaded ==
    \E k \in 1 .. Len(pending) :
        PointerStep(selectTool_resume(World, k))

P_Add ==
    \E object \in PointerObjects : PointerStep(addObject(World, object))

P_MouseDown ==
    \E p \in PointerPoints :
        PointerStep(emitMouse([World EXCEPT !.used.downs = @ + 1, !.used.moves = 0],
                              "mousedown", p, 1))

P_MouseMove ==
    \E p \in PointerPoints :
        PointerStep(emitMouse([World EXCEPT !.used.moves = @ + 1], "mousemove", p, 1))

P_MouseUp ==
    \E p \in PointerPoints : PointerStep(emitMouse(World, "mouseup", p, 1))

PointerNext ==
    \/ P_ToolLoaded
    \/ P_Add
    \/ P_MouseDown
    \/ P_MouseMove
    \/ P_MouseUp

PointerSpec ==
    Init /\ [][PointerNext]_vars

(* The same, with the user selecting the selection tool again, possibly     *)
(* while the load of the default tool is still in flight.                   *)

MaxReselects ==
    1

P_ToolSelect ==
    LET w == selectTool_begin([World EXCEPT !.used.selects = @ + 1], "select")
    IN  w.used.selects <= MaxReselects /\ PointerStep(w)

\* The race is run on one object and two pointer presses.
PointerRaceNext ==
    /\ PointerNext \/ P_ToolSelect
    /\ Len(objects') <= MaxObjects
    /\ used'.downs <= RaceDowns

PointerRaceSpec ==
    Init /\ [][PointerRaceNext]_vars

----------------------------------------------------------------------------
(* Claims about the history engine, checked under HistorySpec *)

\* The pictures stored in the history, oldest first.
Contents ==
    [i \in 1 .. Len(states) |-> heap[states[i]]]

\* C1: in every reachable state -1 <= cursor <= len(entries)-1 and
\* len(entries) <= maxEntries.
C1_CursorAndLengthInRange ==
    /\ -1 <= currentIndex
    /\ currentIndex <= Len(states) - 1
    /\ Len(states) <= maxStates

\* A push has just evicted the oldest entry of a full history.
C1_Witness ==
    /\ last.op = "push"
    /\ last.preLen = maxStates
    /\ last.preIdx = maxStates - 1
    /\ Len(states) = maxStates

\* C2: a push while cursor < len(entries)-1 leaves the old entries[0..cursor]
\* followed by the new snapshot, the cursor on the last index, and nothing to
\* redo.
C2_PushPrunesRedoBranch ==
    [][(last'.op = "push" /\ currentIndex < Len(states) - 1) =>
          /\ Contents' = Append(SubSeq(Contents, 1, currentIndex + 1), canvas)
          /\ currentIndex' = Len(states') - 1
          /\ redo(World').ret = Null
          /\ redo(World').w = World']_vars

\* push A,B,C; undo twice; push D: entries [A,D], cursor 1.
C2_Witness ==
    /\ last.op = "push"
    /\ last.preLen = 3
    /\ last.preIdx = 0
    /\ Len(states) = 2
    /\ currentIndex = 1

\* C3: a push that would make len(entries) exceed maxEntries evicts exactly
\* the oldest entry: afterwards len(entries) = maxEntries, the other entries
\* keep their order, and the cursor indexes the snapshot just pushed.
C3_OverflowEvictsOldest ==
    [][(last'.op = "push" /\ currentIndex + 2 > maxStates) =>
          /\ Len(states') = maxStates
          /\ Contents' = Append(Tail(SubSeq(Contents, 1, currentIndex + 1)), canvas)
          /\ currentIndex' = (currentIndex + 1) - 1
          /\ currentIndex' = Len(states') - 1
          /\ Contents'[currentIndex' + 1] = canvas]_vars

\* The evicted entry differed from the others, so shifting is visible.
C3_Witness ==
    /\ last.op = "push"
    /\ last.preLen = maxStates
    /\ last.preIdx = maxStates - 1
    /\ Contents[1] # Contents[Len(states)]

\* C5: with cursor > 0 undo moves the cursor down by exactly one and returns
\* the entry at the new cursor; with cursor < len(entries)-1 redo moves it up
\* by exactly one and returns the entry at the new cursor; the entries are
\* the same before and after.
C5_UndoRedoStepByOne ==
    [][/\ (last'.op = "undo" /\ currentIndex > 0) =>
             /\ currentIndex' = currentIndex - 1
             /\ last'.ret # Null
             /\ heap'[The(last'.ret)] = Contents[currentIndex' + 1]
             /\ Contents' = Contents
       /\ (last'.op = "redo" /\ currentIndex < Len(states) - 1) =>
             /\ currentIndex' = currentIndex + 1
             /\ last'.ret # Null
             /\ heap'[The(last'.ret)] = Contents[currentIndex' + 1]
             /\ Contents' = Contents]_vars

\* A redo has just returned an entry that differs from the one undo returned.
C5_Witness ==
    /\ last.op = "redo"
    /\ last.ret # Null
    /\ currentIndex = last.preIdx + 1
    /\ Contents[currentIndex] # Contents[currentIndex + 1]

\* C6: no entry is aliased by a value outside the engine: a write to the
\* snapshot that was passed to push, or to a snapshot undo or redo returned,
\* changes the content of no entry.
C6_NoEntryAliased ==
    [][/\ HeldRefs(held') \cap Range(states') = {}
       /\ last'.op = "mutate" => Contents' = Contents]_vars

\* The caller has written to a snapshot it holds while the history has
\* entries, one of them a copy of what the caller held.
C6_Witness ==
    /\ last.op = "mutate"
    /\ held.passed # Null
    /\ held.returned # Null
    /\ Len(states) = maxStates

\* C4: undo at cursor <= 0 and redo at cursor >= len(entries)-1 return
\* absent, raise no error and leave entries, cursor and canvas unchanged.
C4_BoundaryUndoRedoNoOp ==
    [][((last'.op = "undo" /\ currentIndex <= 0) \/
        (last'.op = "redo" /\ currentIndex >= Len(states) - 1)) =>
          /\ last'.ret = Null
          /\ ~last'.threw
          /\ Contents' = Contents
          /\ currentIndex' = currentIndex
          /\ canvas' = canvas]_vars

\* An undo was refused at cursor 0 of a non-empty history whose only
\* reachable entry is not what the canvas shows.
C4_Witness ==
    /\ last.op = "undo"
    /\ last.ret = Null
    /\ last.preIdx = 0
    /\ Len(states) > 1
    /\ canvas # Contents[1]

\* C7: after every push, undo, redo and clear the flags held by the toolbar
\* equal canUndo() and canRedo() of the engine.
C7_ToolbarFlagsMatchEngine ==
    /\ toolbar.canUndo = (currentIndex > 0)
    /\ toolbar.canRedo = (currentIndex < Len(states) - 1)

\* Both flags are set, after a redo in the middle of the history.
C7_Witness ==
    /\ last.op = "redo"
    /\ last.ret # Null
    /\ toolbar.canUndo
    /\ toolbar.canRedo

----------------------------------------------------------------------------
(* Claims about the application *)

\* No tool instance is in the middle of a pointer gesture.
Idle ==
    \A i \in 1 .. Len(tools) : ~tools[i].isDrawing

\* C8: whenever the history is non-empty and no pointer gesture is in
\* progress, the canvas shows the picture stored at the cursor; in
\* particular it still shows the restored picture after an undo or redo and
\* any number of render-loop frames.
C8_CanvasShowsCursorEntry ==
    (Len(states) > 0 /\ currentIndex >= 0 /\ Idle)
        => canvas = heap[states[currentIndex + 1]]

\* The gestures C9 speaks of, as endDrawing reports them.
CommittedGestures ==
    {"pen", "rectangle", "circle", "line", "arrow", "move", "resize"}

\* C9: a pointer release that completes a drawing gesture (pen, rectangle,
\* circle, line, arrow), a move gesture or a resize gesture makes exactly one
\* saveState call, and so does a clear action.
C9_GestureCommitsOnce ==
    [][/\ \A p \in Points :
             LET w == emitMouse(World, "mouseup", p, 1)
             IN  (/\ RaceStep(w)
                  /\ \E k \in 1 .. Len(w.completed) :
                         w.completed[k] \in CommittedGestures)
                     => w.pushes = 1
        /\ LET c == onActionClear(World)
           IN  RaceStep(c) => c.pushes = 1]_vars

\* The active selection controller holds a selected object.
ActiveSelection ==
    {The(tools[i].selectedObject) :
        i \in {j \in 1 .. Len(tools) :
                  /\ tools[j].kind = "select"
                  /\ tools[j].isActive
                  /\ tools[j].selectedObject # Null}}

\* C10: a Delete or Backspace key press while the selection controller has
\* an active selection removes the selected object from the store and
\* pushes a history entry.
C10_DeleteRemovesAndCommits ==
    [][LET w == onKeyDelete(World, 1)
       IN  (Step(w) /\ ActiveSelection # {})
               => /\ \A id \in ActiveSelection : getObject(w.objects, id) = Null
                  /\ w.pushes = 1]_vars

----------------------------------------------------------------------------
(* Claims about the object store *)

IdsOf(objs) ==
    [i \in 1 .. Len(objs) |-> objs[i].id]

Without(seq, k) ==
    SubSeq(seq, 1, k - 1) \o SubSeq(seq, k + 1, Len(seq))

\* C11: under add, delete, select, deselect, move and resize the ids of the
\* stored objects are pairwise distinct, every id addObject returns is
\* greater than all it returned before, and no stored object changes its
\* id: a step keeps the ids as they are, appends the id just returned, or
\* removes one.
C11_IdsUniqueIncreasingFixed ==
    [][/\ \A i, j \in 1 .. Len(objects') :
              i # j => objects'[i].id # objects'[j].id
       /\ \A i, j \in 1 .. Len(issued') : i < j => issued'[i] < issued'[j]
       /\ \/ IdsOf(objects') = IdsOf(objects) /\ issued' = issued
          \/ /\ Len(issued') = Len(issued) + 1
             /\ IdsOf(objects') = Append(IdsOf(objects), issued'[Len(issued')])
          \/ /\ issued' = issued
             /\ \E k \in 1 .. Len(objects) :
                    IdsOf(objects') = Without(IdsOf(objects), k)]_vars

\* Three ids were handed out, the second object was deleted before the
\* third was added, and an object was moved or resized.
C11_Witness ==
    /\ issued = <<1, 2, 3>>
    /\ IdsOf(objects) = <<1, 3>>
    /\ used.edits > 0

\* The displacements the move laws are tried with.
TriedDeltas ==
    {Pt(dx, dy) : dx \in {-16, -1, 0, 12}, dy \in {-12, 0, 7}}

\* An object carrying points has been displaced from where it was added.
Displaced(o) ==
    \/ o.type \in {"line", "arrow"} /\ \A s \in SampleObjects : s.points # o.points
    \/ o.type = "freehand" /\ \A s \in SampleObjects : s.path # o.path

\* C12: for every stored object and every displacement (dx, dy),
\* moveObject(id, dx, dy) followed by moveObject(id, -dx, -dy) leaves the
\* object's x and y and every point of its path and points as they were.
C12_MoveRoundTrip ==
    \A id \in NamedIds, d \in TriedDeltas :
        LET there == moveObject(World, id, d.x, d.y)
            back  == moveObject(there, id, -d.x, -d.y)
            o     == getObject(objects, id)
            o2    == getObject(back.objects, id)
        IN  o # Null =>
                /\ o2 # Null
                /\ The(o2).x = The(o).x /\ The(o2).y = The(o).y
                /\ The(o2).path = The(o).path
                /\ The(o2).points = The(o).points

\* Two moves have been made and the store holds a displaced line and a
\* displaced freehand stroke.
C12_Witness ==
    /\ used.edits = 2
    /\ \E i, j \in 1 .. Len(objects) :
           /\ objects[i].type = "line" /\ Displaced(objects[i])
           /\ objects[j].type = "freehand" /\ Displaced(objects[j])

\* C13: moveObject(id, dx, dy) adds (dx, dy) to x, y and to every point of
\* path and points of the object, so that its bounds are translated by
\* (dx, dy) with the same width and height, and changes no other object.
C13_MoveTranslatesConsistently ==
    \A id \in NamedIds, d \in TriedDeltas :
        LET there == moveObject(World, id, d.x, d.y)
            index == findIndex(objects, id)
            o     == objects[index]
            o2    == there.objects[index]
            b     == getObjectBounds(o)
            b2    == getObjectBounds(o2)
        IN  /\ Len(there.objects) = Len(objects)
            /\ \A j \in 1 .. Len(objects) :
                   j # index => there.objects[j] = objects[j]
            /\ index # 0 =>
                   /\ o2.x = o.x + d.x /\ o2.y = o.y + d.y
                   /\ Len(o2.path) = Len(o.path)
                   /\ Len(o2.points) = Len(o.points)
                   /\ \A k \in 1 .. Len(o.path) :
                          o2.path[k] = Pt(o.path[k].x + d.x, o.path[k].y + d.y)
                   /\ \A k \in 1 .. Len(o.points) :
                          o2.points[k] = Pt(o.points[k].x + d.x, o.points[k].y + d.y)
                   /\ b2 = [x |-> b.x + d.x, y |-> b.y + d.y,
                            width |-> b.width, height |-> b.height]
                   /\ [o2 EXCEPT !.x = o.x, !.y = o.y, !.path = o.path,
                                  !.points = o.points] = o

\* The store holds two objects of different types, one of them with
\* points, and one of them has been moved.
C13_Witness ==
    /\ Len(objects) = 2
    /\ objects[1].type = "circle" /\ objects[1].x # 12
    /\ objects[2].type = "arrow"
    /\ used.edits > 0

\* The pointer positions the hit test is tried at.
HitProbes ==
    {Pt(x, y) : x \in {-12, 0, 12, 24, 40}, y \in {-16, 0, 16, 32}}

\* C14: at no pointer position does getObjectAtPosition return an object
\* whose visible flag is false.
C14_HitTestSkipsHidden ==
    \A p \in HitProbes :
        LET hit == getObjectAtPosition(objects, p.x, p.y)
        IN  hit # Null => The(hit).visible

\* A hidden object lies over a visible one and a probe inside both hits
\* the visible one.
C14_Witness ==
    \E p \in HitProbes, i, j \in 1 .. Len(objects) :
        /\ i < j
        /\ objects[i].visible /\ isPointInObject(p.x, p.y, objects[i])
        /\ ~objects[j].visible /\ isPointInObject(p.x, p.y, objects[j])
        /\ getObjectAtPosition(objects, p.x, p.y) = Some(objects[i])

\* C15: getObjectAtPosition returns the visible object of greatest index
\* among those containing the point, and null exactly when no visible
\* object contains it.
C15_HitTestTopmostVisible ==
    \A p \in HitProbes :
        LET hit  == getObjectAtPosition(objects, p.x, p.y)
            hits == {i \in 1 .. Len(objects) :
                        objects[i].visible /\ isPointInObject(p.x, p.y, objects[i])}
        IN  /\ hit = Null <=> hits = {}
            /\ hits # {} =>
                   /\ hit = Some(objects[MaxOf(hits)])
                   /\ \A i \in hits : i <= MaxOf(hits)

\* Two visible objects of different types contain a probe, and a third
\* probe lies in neither.
C15_Witness ==
    /\ Len(objects) = 2
    /\ objects[1].visible /\ objects[2].visible
    /\ objects[1].type # objects[2].type
    /\ \E p \in HitProbes :
           /\ isPointInObject(p.x, p.y, objects[1])
           /\ isPointInObject(p.x, p.y, objects[2])
           /\ getObjectAtPosition(objects, p.x, p.y) = Some(objects[2])
    /\ \E p \in HitProbes : getObjectAtPosition(objects, p.x, p.y) = Null

\* C16: after any sequence of add, select, deselect, delete, move, resize,
\* clear and import the store's selected object is null or an object of the
\* store, and deleting the selected object leaves the selection null.
C16_SelectionInStore ==
    /\ selectedObject # Null => getObject(objects, The(selectedObject)) # Null
    /\ \A id \in NamedIds :
           selectedObject = Some(id) =>
               LET w == deleteObject(World, id)
               IN  w.selectedObject = Null /\ getObject(w.objects, id) = Null

\* The upper of two stored objects is selected after an edit.
C16_Witness ==
    /\ Len(objects) = 2
    /\ selectedObject = Some(objects[2].id)
    /\ used.edits > 0

\* Scale factors tried on every reachable store: growing, shrinking, unequal,
\* mirrored and collapsing.
TriedScales ==
    Scales \cup { <<Ratio(1, 2), Ratio(2, 1)>>, <<Ratio(3, 1), Ratio(1, 2)>>,
                  <<Ratio(1, 1), Ratio(1, 1)>>, <<Ratio(0, 1), Ratio(2, 1)>> }

\* C17: the store's resize multiplies width and height by scaleX and scaleY,
\* keeps the centre (x + width/2, y + height/2) where it was, multiplies a
\* radius by max(scaleX, scaleY), and touches no other object.
C17_ResizePreservesCenter ==
    \A i \in 1 .. Len(objects), sc \in TriedScales :
        LET o == objects[i]
            w == resizeObject(World, o.id, sc[1], sc[2])
            r == w.objects[i]
            m == RatioMax(sc[1], sc[2])
        IN  ~w.inexact =>
                /\ r.width * sc[1].d = o.width * sc[1].n
                /\ r.height * sc[2].d = o.height * sc[2].n
                /\ 2 * r.x + r.width = 2 * o.x + o.width
                /\ 2 * r.y + r.height = 2 * o.y + o.height
                /\ r.radius * m.d = o.radius * m.n
                /\ r.id = o.id /\ r.type = o.type
                /\ Without(w.objects, i) = Without(objects, i)

\* A rectangle of the store has been doubled about its centre, and an unequal
\* resize of it is exact.
C17_Witness ==
    \E i \in 1 .. Len(objects) :
        /\ objects[i].type = "rectangle"
        /\ objects[i].width = 48 /\ objects[i].height = 64
        /\ objects[i].x = -12 /\ objects[i].y = -16
        /\ ~resizeObject(World, objects[i].id, Ratio(3, 1), Ratio(1, 2)).inexact

\* C18: after any resize of an object its width and height are at least 0.
\* Objects enter the store with sizes of at least 0 and only a resize changes
\* a size, so the claim says that no stored object has a negative size.
C18_SizesNonNegative ==
    \A i \in 1 .. Len(objects) :
        objects[i].width >= 0 /\ objects[i].height >= 0

\* The tolerance isPointNearLine uses when its caller passes none.
tolerance ==
    5

\* Pointer positions around the sample line and arrow: on the strokes, at
\* distances 2, 4, 5 and 6 from them, and beyond their ends.
LineProbes ==
    {Pt(px, py) : px \in {-6, -5, -2, 0, 12, 24, 26, 29}, py \in {-6, -5, -4, -2, 0, 2, 16}}

\* C19: a line or arrow is hit at (x, y) exactly when the distance from
\* (x, y) to the closest point of the segment between its two end points is
\* at most max(strokeWidth, tolerance), the boundary included.
C19_LineHitWithinMaxTolerance ==
    \A i \in 1 .. Len(objects), p \in LineProbes :
        LET o == objects[i]
        IN  (o.type \in {"line", "arrow"} /\ Len(o.points) >= 2) =>
                (isPointInObject(p.x, p.y, o)
                    <=> isPointNearLine(p.x, p.y, o.points[1], o.points[2],
                                        Max2(strokeWidth, tolerance)))

----------------------------------------------------------------------------
(* Claims about the selection tool, checked under PointerSpec *)

\* The handles of the selected object's bounds that lie within handleSize
\* of (x, y), by their place in the order nw, n, ne, e, se, s, sw, w.
HandlesWithin(o, x, y) ==
    LET handles == getResizeHandles(getObjectBounds(o))
    IN  {k \in 1 .. Len(handles) :
            (2 * x - handles[k].x2) * (2 * x - handles[k].x2)
          + (2 * y - handles[k].y2) * (2 * y - handles[k].y2)
                <= 4 * handleSize * handleSize}

\* The visible objects that contain (x, y).
ObjectsAt(x, y) ==
    {k \in 1 .. Len(objects) :
        objects[k].visible /\ isPointInObject(x, y, objects[k])}

\* C20: a pointer press is decided by each active selection tool in strict
\* priority.  With an object selected and the pointer within handleSize of a
\* handle of it, the tool starts resizing with that handle, whether or not
\* the pointer is inside the object.  Else, with the pointer inside the
\* selected object, it starts moving, whatever lies on top.  In both cases
\* the selection stays.  Only otherwise is the store hit-tested: the topmost
\* object at the pointer becomes the selection, or there is none.
C20_PointerDownPriority ==
    \A i \in 1 .. Len(tools), p \in PointerPoints :
        (tools[i].kind = "select" /\ tools[i].isActive /\ tools[i].subscribed) =>
            LET t == tools[i]
                w == onMouseDown(World, i, p)
                r == w.tools[i]
                sel == The(getObject(objects, The(t.selectedObject)))
                near == HandlesWithin(sel, p.x, p.y)
                hit == ObjectsAt(p.x, p.y)
                kept == /\ r.selectedObject = t.selectedObject
                        /\ w.selectedObject = selectedObject
                        /\ w.objects = objects
            IN  IF t.selectedObject # Null /\ near # {}
                THEN /\ r.isResizing
                     /\ r.resizeHandle
                            = Some(getResizeHandles(getObjectBounds(sel))[MinOf(near)].type)
                     /\ r.isMoving = t.isMoving
                     /\ kept
                ELSE IF t.selectedObject # Null /\ isPointInObject(p.x, p.y, sel)
                THEN /\ r.isMoving
                     /\ r.isResizing = t.isResizing
                     /\ r.resizeHandle = t.resizeHandle
                     /\ kept
                ELSE /\ r.isMoving = t.isMoving
                     /\ r.isResizing = t.isResizing
                     /\ r.resizeHandle = t.resizeHandle
                     /\ w.objects = objects
                     /\ w.selectedObject
                            = IF hit = {} THEN Null ELSE Some(objects[MaxOf(hit)].id)
                     /\ r.selectedObject = w.selectedObject

\* The idle tool has the lower of two objects selected; one pointer position
\* is on a handle and inside the selected object, another is inside it with
\* the other object on top, and a third is off every object.
C20_Witness ==
    /\ Len(objects) = 2
    /\ Len(tools) = 1
    /\ tools[1].kind = "select" /\ tools[1].isActive /\ ~tools[1].isDrawing
    /\ tools[1].selectedObject = Some(objects[1].id)
    /\ used.downs > 0
    /\ \E p \in PointerPoints :
           /\ HandlesWithin(objects[1], p.x, p.y) # {}
           /\ isPointInObject(p.x, p.y, objects[1])
    /\ \E p \in PointerPoints :
           /\ HandlesWithin(objects[1], p.x, p.y) = {}
           /\ isPointInObject(p.x, p.y, objects[1])
           /\ MaxOf(ObjectsAt(p.x, p.y)) = 2
    /\ \E p \in PointerPoints : ObjectsAt(p.x, p.y) = {}

\* The object o carried by (dx, dy).
Translated(o, dx, dy) ==
    [o EXCEPT !.x = @ + dx, !.y = @ + dy,
              !.path = [k \in 1 .. Len(@) |-> Pt(@[k].x + dx, @[k].y + dy)],
              !.points = [k \in 1 .. Len(@) |-> Pt(@[k].x + dx, @[k].y + dy)]]

\* C21: in a gesture that a pointer press at p0 starts as a move, after the
\* pointer has gone to p1 the object has been carried by p1 - p0, after it
\* has gone on to p2 by p2 - p0, and after p3 by p3 - p0: each pointer move
\* forwards the step from the previous pointer position.
C21_MoveGestureTotalsPointerTravel ==
    \A i \in 1 .. Len(tools) :
    \A p0 \in PointerPoints, p1 \in Points, p2 \in Points, p3 \in Points :
        LET w0 == emitMouse(World, "mousedown", p0, 1)
            w1 == emitMouse(w0, "mousemove", p1, 1)
            w2 == emitMouse(w1, "mousemove", p2, 1)
            w3 == emitMouse(w2, "mousemove", p3, 1)
            t  == w0.tools[i]
            id == The(t.selectedObject)
            o  == The(getObject(w0.objects, id))
            at(w) == The(getObject(w.objects, id))
        IN  (/\ t.kind = "select" /\ t.isActive /\ t.subscribed
             /\ t.isMoving /\ t.selectedObject # Null) =>
                /\ at(w1) = Translated(o, p1.x - p0.x, p1.y - p0.y)
                /\ at(w2) = Translated(o, p2.x - p0.x, p2.y - p0.y)
                /\ at(w3) = Translated(o, p3.x - p0.x, p3.y - p0.y)

\* The selection tool instance i is in a resize gesture on a stored object.
Resizing(i) ==
    /\ tools[i].kind = "select" /\ tools[i].isActive /\ tools[i].subscribed
    /\ tools[i].isDrawing /\ tools[i].isResizing /\ ~tools[i].isMoving
    /\ tools[i].resizeHandle # Null
    /\ tools[i].selectedObject # Null
    /\ getObject(objects, The(tools[i].selectedObject)) # Null

\* The object the selection tool instance i has selected, in the world w.
Grabbed(w, i) ==
    The(getObject(w.objects, The(tools[i].selectedObject)))

\* C22: in a resize gesture on a corner handle of a rectangle, wherever the
\* pointer moves to, the two edges of the box that do not touch the dragged
\* corner stay where they are.
C22_CornerResizeAnchorsOpposite ==
    \A i \in 1 .. Len(tools), p \in PointerPoints :
        (Resizing(i) /\ Grabbed(World, i).type = "rectangle") =>
            LET o == Grabbed(World, i)
                r == Grabbed(emitMouse(World, "mousemove", p, 1), i)
                h == The(tools[i].resizeHandle)
                left   == r.x = o.x
                top    == r.y = o.y
                right  == r.x + r.width = o.x + o.width
                bottom == r.y + r.height = o.y + o.height
            IN  /\ h = "nw" => right /\ bottom
                /\ h = "ne" => left /\ bottom
                /\ h = "se" => left /\ top
                /\ h = "sw" => right /\ top

\* C23: in a resize gesture on an edge handle, wherever the pointer moves
\* to, only the one dimension of the object's box changes: under e and w its
\* y and height stay, under n and s its x and width stay, and the position
\* changes only under the low edges n (y) and w (x).
C23_EdgeResizeChangesOneDimension ==
    \A i \in 1 .. Len(tools), p \in PointerPoints :
        Resizing(i) =>
            LET w == emitMouse(World, "mousemove", p, 1)
                o == getObjectBounds(Grabbed(World, i))
                r == getObjectBounds(Grabbed(w, i))
                h == The(tools[i].resizeHandle)
            IN  ~w.inexact =>
                    /\ h \in {"e", "w"} => r.y = o.y /\ r.height = o.height
                    /\ h \in {"n", "s"} => r.x = o.x /\ r.width = o.width
                    /\ h = "e" => r.x = o.x
                    /\ h = "s" => r.y = o.y

\* The handles a resize gesture can hold.
HandleTypes ==
    {"nw", "n", "ne", "e", "se", "s", "sw", "w"}

\* C24: after a pointer move of a resize gesture, whichever handle is held
\* and wherever the pointer is, the box applied to the object is at least
\* 10 wide and 10 high.
C24_ResizeKeepsMinimumSize ==
    \A i \in 1 .. Len(tools), p \in PointerPoints, h \in HandleTypes :
        Resizing(i) =>
            LET w == emitMouse([World EXCEPT !.tools[i].resizeHandle = Some(h)],
                               "mousemove", p, 1)
                r == Grabbed(w, i)
            IN  r.width >= minResize /\ r.height >= minResize

\* A pointer move of a resize gesture has left the rectangle at the least
\* width.
C24_Witness ==
    /\ Len(tools) = 1
    /\ Resizing(1)
    /\ used.moves = 1
    /\ Grabbed(World, 1).type = "rectangle"
    /\ Grabbed(World, 1).width = minResize

\* Boxes applied to a circle: wide, tall, square, and off the origin.
TriedBoxes ==
    { [x |-> 0, y |-> 0, width |-> 100, height |-> 50],
      [x |-> 0, y |-> 0, width |-> 10, height |-> 40],
      [x |-> -6, y |-> 8, width |-> 20, height |-> 20],
      [x |-> 2, y |-> 16, width |-> 20, height |-> 10] }

\* C25: applying a box to a circle makes its radius half the smaller side of
\* the box and puts its centre at the centre of the box; the box
\* {x: 0, y: 0, width: 100, height: 50} gives radius 25 about (50, 25).
C25_CircleFitsNewBounds ==
    \A k \in 1 .. Len(objects), b \in TriedBoxes :
        objects[k].type = "circle" =>
            LET w == applyNewBounds(World, objects[k].id, b)
                r == w.objects[k]
            IN  /\ ~w.inexact
                /\ 2 * r.radius = Min2(b.width, b.height)
                /\ 2 * r.x = 2 * b.x + b.width
                /\ 2 * r.y = 2 * b.y + b.height
                /\ (b = [x |-> 0, y |-> 0, width |-> 100, height |-> 50]) =>
                        r.radius = 25 /\ r.x = 50 /\ r.y = 25

\* A resize gesture has applied a box to the circle of the store.
C25_Witness ==
    /\ Len(tools) = 1
    /\ Resizing(1)
    /\ used.moves = 1
    /\ Grabbed(World, 1).type = "circle"
    /\ Grabbed(World, 1).radius # 10

\* No gesture is under way and a selection tool is active.
SelectionIdle ==
    /\ \A i \in 1 .. Len(tools) : ~tools[i].isDrawing
    /\ \E i \in 1 .. Len(tools) :
           tools[i].kind = "select" /\ tools[i].isActive /\ tools[i].subscribed

\* A pointer press at p starts a move or a resize: an object is selected and
\* p is within handleSize of one of its handles or inside it.
Grabs(p) ==
    /\ selectedObject # Null
    /\ LET sel == The(getObject(objects, The(selectedObject)))
       IN  HandlesWithin(sel, p.x, p.y) # {} \/ isPointInObject(p.x, p.y, sel)

\* C26: the pointer release that ends a gesture pushes a history snapshot
\* exactly when the gesture was a move or a resize.  A gesture that only
\* selected an object or only drew the selection rectangle pushes nothing
\* and leaves every object of the store as it was.  The gestures are a
\* press and a release, and a press, a pointer move and a release.
C26_ReleaseCommitsMoveAndResizeOnly ==
    \A p0 \in PointerPoints, p1 \in PointerPoints :
        SelectionIdle =>
            LET w0 == emitMouse(World, "mousedown", p0, 1)
                w1 == emitMouse(w0, "mousemove", p1, 1)
                click == emitMouse(w0, "mouseup", p0, 1)
                drag  == emitMouse(w1, "mouseup", p1, 1)
            IN  IF Grabs(p0)
                THEN /\ click.pushes - w0.pushes = 1
                     /\ drag.pushes - w1.pushes = 1
                ELSE /\ click.pushes = 0 /\ click.objects = objects
                     /\ drag.pushes = 0 /\ drag.objects = objects

----------------------------------------------------------------------------
(* Claims about the drawing tools, checked under Spec *)

\* The type of the object a drawing gesture is said to leave in the store.
ObjectTypeOf(gesture) ==
    IF gesture = "pen" THEN "freehand" ELSE gesture

\* C27: the pointer release that completes a gesture of a drawing tool
\* (pen, rectangle, circle, line, arrow) appends exactly one object of the
\* corresponding type to the store.
C27_DrawingGestureAddsOneObject ==
    \A p \in Points :
        LET w == emitMouse(World, "mouseup", p, 1)
        IN  (/\ Len(w.completed) = 1
             /\ w.completed[1] \in {"pen", "rectangle", "circle", "line", "arrow"}) =>
                /\ Len(w.objects) = Len(objects) + 1
                /\ SubSeq(w.objects, 1, Len(objects)) = objects
                /\ w.objects[Len(w.objects)].type = ObjectTypeOf(w.completed[1])

----------------------------------------------------------------------------
(* Claims about import and missing ids, checked under StoreResetSpec *)

\* C28: import is all-or-nothing.  After text that is not JSON, or JSON that
\* is not a list of objects with obj_N ids, the objects, the selection and
\* the next id are as before the call; otherwise the objects are those of
\* the file.
C28_ImportAllOrNothing ==
    \A json \in SampleImports :
        LET w == importObjects(World, json)
        IN  IF json.valid /\ json.shaped
            THEN w.objects = json.objects
            ELSE /\ w.objects = objects
                 /\ w.selectedObject = selectedObject
                 /\ w.nextId = nextId

C30_ControllerFollowsStore ==
    \A i \in 1 .. Len(tools) :
        (tools[i].kind = "select" /\ tools[i].isActive) =>
            tools[i].selectedObject = selectedObject

----------------------------------------------------------------------------
(* Claims about the gesture state of the selection tool *)

\* C31: a selection tool is never moving and resizing at once, and after a
\* pointer release that it handles isMoving and isResizing are false and the
\* remembered handle and the drag start point are null.
C31_GestureStateMachine ==
    \A i \in 1 .. Len(tools) :
        (tools[i].kind = "select" /\ tools[i].isActive /\ tools[i].subscribed) =>
            /\ ~(tools[i].isMoving /\ tools[i].isResizing)
            /\ \A p \in PointerPoints :
                   LET r == emitMouse(World, "mouseup", p, 1).tools[i]
                   IN  /\ ~r.isMoving /\ ~r.isResizing
                       /\ r.resizeHandle = Null
                       /\ r.dragStartPoint = Null

\* C32: in a resize gesture the object a pointer move leaves depends only
\* on the handle and the pointer position: a second pointer move at the same
\* position changes nothing, and a pointer move by way of another position
\* leaves the same object as the direct one.
C32_ResizeDependsOnPointerOnly ==
    \A i \in 1 .. Len(tools), p \in PointerPoints, q \in PointerPoints :
        Resizing(i) =>
            LET once  == emitMouse(World, "mousemove", p, 1)
                twice == emitMouse(once, "mousemove", p, 1)
                by    == emitMouse(World, "mousemove", q, 1)
                via   == emitMouse(by, "mousemove", p, 1)
            IN  (~twice.inexact /\ ~via.inexact) =>
                    /\ Grabbed(twice, i) = Grabbed(once, i)
                    /\ Grabbed(via, i) = Grabbed(once, i)

\* The selection tool instance i is the current tool and is in a move or
\* resize gesture.
Dragging(i) ==
    /\ tools[i].kind = "select" /\ tools[i].current
    /\ tools[i].isActive /\ tools[i].subscribed /\ tools[i].isDrawing
    /\ tools[i].isMoving \/ tools[i].isResizing
    /\ tools[i].selectedObject # Null

\* C33: a move or resize gesture that the deactivation of the selection tool
\* abandons pushes no history entry: not when tool:select deactivates the
\* tool, not when the pointer is released before the next tool has loaded,
\* not when the next tool is activated, and not when the pointer is released
\* after that.
C33_AbandonedGestureCommitsNothing ==
    \A i \in 1 .. Len(tools), toolName \in ToolKinds, p \in Points :
        Dragging(i) =>
            LET off    == selectTool_begin(World, toolName)
                early  == emitMouse(off, "mouseup", p, 1)
                loaded == selectTool_resume(off, Len(off.pending))
                late   == emitMouse(loaded, "mouseup", p, 1)
            IN  /\ off.pushes = 0 /\ early.pushes = 0
                /\ loaded.pushes = 0 /\ late.pushes = 0
                /\ late.states = states /\ early.states = states

\* A move gesture of the current selection tool has carried the rectangle
\* away from where it was added.
C33_Witness ==
    \E i \in 1 .. Len(tools) :
        /\ Dragging(i) /\ tools[i].isMoving
        /\ used.moves = 1
        /\ Grabbed(World, i).type = "rectangle"
        /\ Grabbed(World, i).x # 0

\* A move or resize gesture that starts with a press at p, moves the pointer
\* to q and is then cut off by tool:select leaves the objects as they were
\* at the press.
GeometryRestored ==
    \A i \in 1 .. Len(tools), p \in PointerPoints, q \in Points,
       toolName \in {"select", "pen"} :
        (SelectionIdle /\ tools[i].current /\ Grabs(p)) =>
            LET down  == emitMouse(World, "mousedown", p, 1)
                moved == emitMouse(down, "mousemove", q, 1)
                off   == selectTool_begin(moved, toolName)
            IN  (down.tools[i].isMoving \/ down.tools[i].isResizing) =>
                    off.objects = down.objects

\* A gesture of a shape tool that starts with a press at p, previews the
\* shape at q and is then cut off by tool:select leaves the canvas as the
\* snapshot taken at the press.
PreviewRemoved ==
    \A kind \in {"rectangle", "circle", "line", "arrow"}, p \in Points, q \in Points :
        (SelectionIdle /\ pending = <<>>) =>
            LET begun == selectTool_begin(World, kind)
                shape == selectTool_resume(begun, Len(begun.pending))
                down  == emitMouse(shape, "mousedown", p, 1)
                moved == emitMouse(down, "mousemove", q, 1)
                off   == selectTool_begin(moved, "select")
            IN  off.canvas = down.canvas

\* C34: deactivating a tool in the middle of a gesture restores the state
\* before the gesture: the object being moved or resized has again the
\* geometry it had at the pointer press, and the preview of a shape tool is
\* gone from the canvas.
C34_DeactivateRestoresPreGestureState ==
    GeometryRestored /\ PreviewRemoved

----------------------------------------------------------------------------
(* Claims about hovering, checked under PointerSpec *)

\* The cursor the canvas has after the pointer moves to p.
HoverCursor(p) ==
    emitMouse(World, "mousemove", p, 1).cursor

\* C35: when the pointer moves with no button pressed while an object is
\* selected, the canvas gets the compass cursor of a handle that is within
\* handleSize of the pointer, "move" when the pointer is on no handle and
\* inside the selected object, and "default" otherwise.
C35_HoverCursorFollowsPointer ==
    \A p \in PointerPoints :
        (SelectionIdle /\ Len(tools) = 1 /\ tools[1].selectedObject # Null
                       /\ selectedObject = tools[1].selectedObject) =>
            LET sel == The(getObject(objects, The(selectedObject)))
                on  == HandlesWithin(sel, p.x, p.y)
                handles == getResizeHandles(getObjectBounds(sel))
            IN  IF on # {}
                THEN HoverCursor(p) \in {Some(handles[k].type \o "-resize") : k \in on}
                ELSE IF isPointInObject(p.x, p.y, sel)
                     THEN HoverCursor(p) = Some("move")
                     ELSE HoverCursor(p) = Some("default")

----------------------------------------------------------------------------
(* Claims about the redraw, checked under Spec *)

\* C36: redraws do not overlap.  Between two handlers no redraw is
\* executing and isRedrawing is false, so the redraw a frame or a listener
\* starts is the only one in progress; it runs to its end and leaves the
\* flag false again.
C36_RedrawsNeverOverlap ==
    /\ ~isRedrawing
    /\ ~redrawCanvas(World).isRedrawing
    /\ redrawCanvas(World).canvas = drawAll(World).canvas

\* A redraw has drawn an object while a selection tool is the current tool.
C36_Witness ==
    /\ objects # <<>> /\ canvas.scene # <<>> /\ canvas.ink = {}
    /\ ~isRedrawing
    /\ currentTool(World) # 0
    /\ tools[currentTool(World)].kind = "select"

----------------------------------------------------------------------------
(* Claims about tool activation, checked under RaceSpec *)

\* The instances that are active and subscribed to the pointer events.
LiveTools ==
    {i \in 1 .. Len(tools) : tools[i].isActive /\ tools[i].subscribed}

\* C37: at most one tool instance is active, however tool:select events
\* and module loads interleave; once every load has completed exactly one
\* instance is active and subscribed, and it is the current tool.
C37_SingleActiveTool ==
    /\ Cardinality({i \in 1 .. Len(tools) : tools[i].isActive}) <= 1
    /\ pending = <<>> =>
           /\ Cardinality(LiveTools) = 1
           /\ \A i \in LiveTools : tools[i].current

\* The instance that selectTool activates has heard the properties:response
\* when its activation is over.
NewToolHearsResponse ==
    \A k \in 1 .. Len(pending) :
        LET a == selectTool_activated(World, k)
        IN  a.tools[Len(a.tools)].gotResponse

\* The activation of a new instance delivers no properties:response to an
\* instance that is deactivated.
StaleToolsHearNothing ==
    \A k \in 1 .. Len(pending), j \in 1 .. Len(tools) :
        ~tools[j].isActive =>
            selectTool_activated(World, k).tools[j].gotResponse
                = tools[j].gotResponse

\* C38: the tool that is activated obtains the properties of the panel:
\* the properties:response that answers its properties:request reaches the
\* new instance and no instance that has been deactivated.
C38_ActivationObtainsProperties ==
    NewToolHearsResponse /\ StaleToolsHearNothing

\* C39: deactivating the current tool removes the subscriptions of that
\* instance and no other: the canvas manager's properties:change listener
\* and the pointer listeners of every other instance are on the bus
\* afterwards if they were before.
C39_DeactivateRemovesOwnListenersOnly ==
    currentTool(World) # 0 =>
        LET cur == currentTool(World)
            off == deactivate(World, cur)
        IN  /\ off.cmListening = cmListening
            /\ \A j \in 1 .. Len(tools) :
                   j # cur => off.tools[j].subscribed = tools[j].subscribed

----------------------------------------------------------------------------
(* Claims about runs of undo, checked under HistorySpec *)

\* The caller of the engine has dropped the snapshots it was given.
Dropped(w) ==
    [w EXCEPT !.heap = Collect(@, w.states, {})]

\* The world after k consecutive calls of undo.
RECURSIVE Undone(_, _)
Undone(w, k) ==
    IF k = 0 THEN Dropped(w) ELSE Dropped(undo(Undone(w, k - 1)).w)

\* C40: with n entries pushed on an empty history and the cursor on the
\* last of them, the first n - 1 of n consecutive undos each return a
\* snapshot and step the cursor back by one, a redo right after any of them
\* puts the cursor back, and the n-th undo returns nothing and changes
\* nothing; with one entry canUndo is false.
C40_UndoRunLength ==
    (Len(states) >= 1 /\ currentIndex = Len(states) - 1) =>
        /\ \A k \in 1 .. Len(states) :
               LET before == Undone(World, k - 1)
                   r      == undo(before)
               IN  IF k < Len(states)
                   THEN /\ r.ret # Null
                        /\ r.w.currentIndex = before.currentIndex - 1
                        /\ redo(r.w).ret # Null
                        /\ redo(r.w).w.currentIndex = before.currentIndex
                   ELSE /\ r.ret = Null
                        /\ r.w = before
                        /\ ~canUndo(before.currentIndex)
                        /\ ~before.toolbar.canUndo
        /\ Len(states) = 1 => ~canUndo(currentIndex) /\ ~toolbar.canUndo

\* The history is full, the cursor is on its last entry and the last
\* operation was a push.
C40_Witness ==
    /\ Len(states) = maxStates
    /\ currentIndex = Len(states) - 1
    /\ last.op = "push"

====
